---- MODULE Spec2Model ----
(***************************************************************************)
(* A model of the request-handling engine of the `http` file server        *)
(* (src/src/ops/mod.rs, src/src/ops/prune.rs, src/src/util/mod.rs).        *)
(*                                                                         *)
(* Strings of the program are sequences of one-character strings, so that  *)
(* slicing, rfind and split can be computed as the code computes them.     *)
(* A percent-escape ("%64") is one element of such a sequence: an escape   *)
(* never is a '/' of the raw URL, and percent_decode maps it to the        *)
(* character it stands for.  A file name is such a sequence too.           *)
(* Option<T> is a sequence of length at most one: None is << >>.           *)
(***************************************************************************)
EXTENDS Integers, Sequences, FiniteSets, TLC

VARIABLES
    \* ---- Auth Gate, as a function of its inputs (SpecAuth)
    authIn,         \* the inputs of one verify_auth call, or << >>
    authOut,        \* what verify_auth decided, or << >> before the call
    \* ---- the server
    handler,        \* the fields of HttpHandler and PruneChain set at construction
    disk,           \* the filesystem
    cache_fs,       \* (hash, encoding) -> [path, present, size, atime]
    cache_fs_files, \* etag -> hash
    cache_fs_size,  \* the AtomicU64 of the filesystem cache
    cache_gen,      \* (hash, encoding) -> [data, atime]
    cache_gen_size, \* the AtomicU64 of the generated cache
    last_prune,     \* PruneChain::last_prune
    now,            \* precise_time_ns(), in ticks
    \* ---- one worker handling requests one after the other (Spec)
    resp,           \* the last request, its response and what the encoder did, or << >>
    stage,          \* "handle" before HttpHandler::handle, "prune" before prune()
    nreq,           \* requests handled so far
    \* ---- workers writing the same target at once (SpecPut)
    puts,           \* worker -> where it is in handle_put_file, and its open files
    orphans,        \* inode -> data of the files unlinked while still open
    observed,       \* what a reader has found at the target, or << >>
    \* ---- workers in the encoding cache at once (SpecCache)
    gets,           \* worker -> where it is in PruneChain::handle, and its miss
    ngets,          \* requests taken so far
    sync,           \* SpecSync: the threads in PruneChain::handle step by step, the locks
    \* ---- the start of the server (SpecPorts)
    ports,          \* the call of try_ports: its range, the state of the ports, its loop
    walk,           \* SpecResolve: one call of the path resolver, iteration by iteration
    \* ---- the HTTP/1 body codecs of hyper (SpecWriter, SpecChunk, SpecReader)
    writer,         \* a SizedWriter, the write calls made on it and what reached the stream
    chunk,          \* a call of read_chunk_size: the line, the position in it, the size so far
    reader          \* an HttpReader over a stream, and the outcome of its read calls

authVars == <<authIn, authOut>>
serverVars == <<handler, disk, cache_fs, cache_fs_files, cache_fs_size, cache_gen, cache_gen_size, last_prune, now>>
workerVars == <<resp, stage, nreq>>
putVars == <<puts, orphans, observed>>
cacheVars == <<gets, ngets, sync>>
bootVars == <<ports, walk>>
h1Vars == <<writer, chunk, reader>>

vars == <<authVars, serverVars, workerVars, putVars, cacheVars, bootVars, h1Vars>>

None == << >>
Some(x) == <<x>>

\* Apply F to the value v: "let x be v in F(x)", with v written once.
With(v, F(_)) == CHOOSE r \in {F(x) : x \in {v}} : TRUE

\* The same for an action F: "let x be v in the step F(x)".
Bind(v, F(_)) == \E x \in {v} : F(x)

(***************************************************************************)
(* Strings                                                                 *)
(***************************************************************************)

\* str::starts_with('/') and str::ends_with('/')
StartsWithSlash(s) == s # << >> /\ s[1] = "/"
EndsWithSlash(s) == s # << >> /\ s[Len(s)] = "/"

\* The 1-based positions of '/' in s.
SlashPositions(s) == {i \in 1..Len(s) : s[i] = "/"}

Max(S) == CHOOSE x \in S : \A y \in S : y <= x
Min(S) == CHOOSE x \in S : \A y \in S : x <= y

\* str::rfind('/').unwrap_or(0): the 0-based index of the last '/', or 0.
RFindSlashOr0(s) == IF SlashPositions(s) = {} THEN 0 ELSE Max(SlashPositions(s)) - 1

\* &path[..path.rfind('/').unwrap_or(0)]
CutLastMutant(s) == IF SlashPositions(s) = {} THEN << >> ELSE SubSeq(s, 1, Min(SlashPositions(s)) - 1)
CutLast(s) == SubSeq(s, 1, RFindSlashOr0(s))

(***************************************************************************)
(* Auth Gate: HttpHandler::verify_auth                                     *)
(***************************************************************************)

\* The path the prefix loop starts from: one leading and one trailing '/'
\* stripped (ops/mod.rs 289-295).
AuthStartPath(path) ==
    LET p1 == IF StartsWithSlash(path) THEN Tail(path) ELSE path
    IN  IF EndsWithSlash(p1) THEN SubSeq(p1, 1, Len(p1) - 1) ELSE p1

\* The while loop of ops/mod.rs 297-304: Some(pad) of the first key found
\* while cutting the last '/...' off, None when the path runs empty.
RECURSIVE PathAuthLookup(_, _)
PathAuthLookup(path_auth_data, path) ==
    IF path = << >> THEN None
    ELSE IF path \in DOMAIN path_auth_data THEN Some(path_auth_data[path])
    ELSE PathAuthLookup(path_auth_data, CutLast(path))

\* The value of `auth` at ops/mod.rs 307: the credentials the request is
\* checked against, None when no policy applies.
EffectiveAuth(global_auth_data, path_auth_data, path) ==
    IF DOMAIN path_auth_data # {}
    THEN LET found == PathAuthLookup(path_auth_data, AuthStartPath(path))
         IN  IF found # None THEN found[1] ELSE global_auth_data
    ELSE global_auth_data

\* A gate that compares the usernames only.
CredentialsAcceptedMutant(auth, authorization) ==
    auth = None \/ (authorization # None /\ auth[1][1] = authorization[1][1])

\* ops/mod.rs 313-351: TRUE when the request passes the gate (Ok(None)),
\* FALSE when verify_auth builds the 401 response.  `authorization` is the
\* Option of the (username, Option password) pair of a Basic header.
CredentialsAccepted(auth, authorization) ==
    IF auth = None THEN TRUE
    ELSE IF authorization = None THEN FALSE
    ELSE LET username == authorization[1][1]
             password == authorization[1][2]
             pwd == IF password = Some("") THEN None ELSE password
         IN  auth[1][1] = username /\ auth[1][2] = pwd

\* HttpHandler::handle 239-243: the gate is consulted only when some policy
\* exists.
AuthGatePasses(global_auth_data, path_auth_data, path, authorization) ==
    IF global_auth_data # None \/ DOMAIN path_auth_data # {}
    THEN CredentialsAccepted(EffectiveAuth(global_auth_data, path_auth_data, path), authorization)
    ELSE TRUE

(***************************************************************************)
(* The filesystem.  A filesystem is a function from the physical paths     *)
(* that exist (sequences of names from the root << >>) to nodes:           *)
(*   [kind |-> "dir"]                                                      *)
(*   [kind |-> "file", data |-> bytes, ino |-> n, mtime |-> t]             *)
(*   [kind |-> "link", abs |-> absolute?, target |-> components]           *)
(* A path of the program (a PathBuf) is a sequence of components, which    *)
(* may name symlinks and may hold "..": the operating system resolves it.  *)
(***************************************************************************)

\* The number of symlinks the operating system follows in one resolution
\* before it fails with ELOOP (the linux MAXSYMLINKS the source cites).
OsMaxLinks == 40

\* Maximum amount of symlinks to follow in any given path lookup.
MAX_SYMLINKS == 40

\* Path::parent / PathBuf::pop: the path without its last component.
Parent(p) == IF p = << >> THEN << >> ELSE SubSeq(p, 1, Len(p) - 1)

\* Path::starts_with on whole components.
IsPathPrefix(p, q) == Len(p) <= Len(q) /\ SubSeq(q, 1, Len(p)) = p

NoPath == [ok |-> FALSE]
OkPath(p) == [ok |-> TRUE, path |-> p]

\* The operating system's path resolution of `comps` from the physical
\* directory `base`: the physical path reached, or NoPath (ENOENT, ENOTDIR,
\* ELOOP).  The last component is followed when it is a symlink only with
\* followLast.  The resolution goes component by component over a state
\* [base, comps, fuel, ok].
\*
\* TRUE when the next component is a symlink that is followed.
Follows(fs, base, comps, followLast) ==
    /\ Head(comps) # <<".", ".">>
    /\ Append(base, Head(comps)) \in DOMAIN fs
    /\ fs[Append(base, Head(comps))].kind = "link"
    /\ (Tail(comps) # << >> \/ followLast)

\* TRUE when the resolution ends at the next component: ENOTDIR, ENOENT,
\* ELOOP.
Fails(fs, base, comps, fuel, followLast) ==
    \/ fs[base].kind # "dir"
    \/ Head(comps) # <<".", ".">> /\ Append(base, Head(comps)) \notin DOMAIN fs
    \/ Follows(fs, base, comps, followLast) /\ fuel = 0

\* The resolution has ended: no component is left, or an error occurred.
WalkEnded(s) == ~s.ok \/ s.comps = << >>

\* The step over the next component: "..", a name, or a symlink, whose
\* target takes the component's place.  A resolution that has ended (no
\* component left, or an error) stays as it is.
WalkStep(fs, s, followLast) ==
    IF WalkEnded(s) THEN s
    ELSE IF Fails(fs, s.base, s.comps, s.fuel, followLast) THEN [s EXCEPT !.ok = FALSE]
    ELSE IF Head(s.comps) = <<".", ".">>
    THEN [s EXCEPT !.base = Parent(s.base), !.comps = Tail(s.comps)]
    ELSE IF ~Follows(fs, s.base, s.comps, followLast)
    THEN [s EXCEPT !.base = Append(s.base, Head(s.comps)), !.comps = Tail(s.comps)]
    ELSE With(fs[Append(s.base, Head(s.comps))], LAMBDA link :
            [s EXCEPT !.base = IF link.abs THEN << >> ELSE s.base,
                      !.comps = link.target \o Tail(s.comps),
                      !.fuel = s.fuel - 1])

\* 2^n steps, the second half only when the resolution has not ended.
RECURSIVE WalkSteps(_, _, _, _)
WalkSteps(fs, s, followLast, n) ==
    IF n = 0 THEN WalkStep(fs, s, followLast)
    ELSE CHOOSE r \in {IF WalkEnded(half) THEN half ELSE WalkSteps(fs, half, followLast, n - 1) :
                          half \in {WalkSteps(fs, s, followLast, n - 1)}} : TRUE

\* The resolution from s to its end, in runs of 2^n, 2^(n+1), ... steps.
RECURSIVE WalkFrom(_, _, _, _)
WalkFrom(fs, s, followLast, n) ==
    CHOOSE r \in {IF WalkEnded(run) THEN run ELSE WalkFrom(fs, run, followLast, n + 1) :
                     run \in {WalkSteps(fs, s, followLast, n)}} : TRUE

WalkResult(s) == IF s.ok /\ s.comps = << >> THEN OkPath(s.base) ELSE NoPath

Walk(fs, base, comps, fuel, followLast) ==
    CHOOSE r \in {WalkResult(WalkFrom(fs, s, followLast, 0)) :
                     s \in {[base |-> base, comps |-> comps, fuel |-> fuel, ok |-> TRUE]}} : TRUE

\* fs::canonicalize
Canonicalize(fs, p) == Walk(fs, << >>, p, OsMaxLinks, TRUE)

KindAt(fs, r, kind) == r.ok /\ fs[r.path].kind = kind

\* Path::exists, Path::is_dir, Path::is_file: all follow symlinks.
Exists(fs, p) == Canonicalize(fs, p).ok
IsDir(fs, p) == KindAt(fs, Canonicalize(fs, p), "dir")
IsFile(fs, p) == KindAt(fs, Canonicalize(fs, p), "file")

\* Path::read_link: Some(target) when the path names a symlink.
ReadLink(fs, p) ==
    With(Walk(fs, << >>, p, OsMaxLinks, FALSE), LAMBDA r :
        IF KindAt(fs, r, "link")
        THEN Some([abs |-> fs[r.path].abs, target |-> fs[r.path].target])
        ELSE None)

\* util::is_symlink
is_symlink(fs, p) == ReadLink(fs, p) # None

\* The test of util::is_descendant_of on the two canonical paths.
BothAndPrefix(who, of_whom) == who.ok /\ of_whom.ok /\ IsPathPrefix(of_whom.path, who.path)

\* util::is_descendant_of
is_descendant_of(fs, who, of_whom) == BothAndPrefix(Canonicalize(fs, who), Canonicalize(fs, of_whom))

\* `if let Ok(full) = p.canonicalize() { p = full; }`
OrElse(r, p) == IF r.ok THEN r.path ELSE p
CanonicalizeOr(fs, p) == OrElse(Canonicalize(fs, p), p)

\* util::is_nonexistent_descendant_of: the loop over the parents, each
\* canonicalized when it exists.
RECURSIVE AnyParentIs(_, _, _)
AnyParentIs(fs, who, of_whom) ==
    IF who = << >> THEN FALSE
    ELSE With(CanonicalizeOr(fs, Parent(who)), LAMBDA up :
         up = of_whom \/ AnyParentIs(fs, up, of_whom))

is_nonexistent_descendant_of(fs, who, of_whom) ==
    With(Canonicalize(fs, of_whom), LAMBDA root :
    With(CanonicalizeOr(fs, who), LAMBDA start :
        root.ok /\ (start = root.path \/ AnyParentIs(fs, start, root.path))))

\* util::detect_file_as_dir: some proper ancestor of p is a regular file.
RECURSIVE detect_file_as_dir(_, _)
detect_file_as_dir(fs, p) ==
    IF p = << >> THEN FALSE
    ELSE IsFile(fs, Parent(p)) \/ detect_file_as_dir(fs, Parent(p))

(***************************************************************************)
(* Path Resolver: HttpHandler::parse_requested_path_custom_symlink         *)
(***************************************************************************)

\* The characters percent-escapes of the model's URLs stand for; "%FF" is
\* an escape that is no valid UTF-8.
IsEscape(c) == Len(c) = 3
EscapeValue(c) == IF c = "%2F" THEN "/"
                  ELSE IF c = "%64" THEN "d"
                  ELSE IF c = "%2E" THEN "."
                  ELSE "?"

\* util::percent_decode: None when the bytes are no UTF-8.
percent_decode(s) ==
    IF \E i \in 1..Len(s) : s[i] = "%FF" THEN None
    ELSE Some([i \in 1..Len(s) |-> IF IsEscape(s[i]) THEN EscapeValue(s[i]) ELSE s[i]])

\* str::split('/')
RECURSIVE Split(_)
Split(s) ==
    IF SlashPositions(s) = {} THEN <<s>>
    ELSE <<SubSeq(s, 1, Min(SlashPositions(s)) - 1)>> \o Split(SubSeq(s, Min(SlashPositions(s)) + 1, Len(s)))

\* Url::path_segments: the raw path without its leading '/', split on '/'.
PathSegments(path) == Split(Tail(path))

\* The components of a path string: the pieces between '/', the empty
\* ones and "." dropped (Path::components).  A component (a file name) is
\* the sequence of its characters.
RECURSIVE NonEmptyNames(_)
NonEmptyNames(pieces) ==
    IF pieces = << >> THEN << >>
    ELSE IF Head(pieces) = << >> \/ Head(pieces) = <<".">> THEN NonEmptyNames(Tail(pieces))
    ELSE <<Head(pieces)>> \o NonEmptyNames(Tail(pieces))

Components(s) == NonEmptyNames(Split(s))

\* PathBuf::push of a string: an absolute string replaces the path.
PushStr(cur, s) == IF StartsWithSlash(s) THEN Components(s) ELSE cur \o Components(s)

\* One iteration of the `while let Ok(newlink) = cur.read_link()` loop,
\* ops/mod.rs 1418-1432, on l = [st, going] with st = [cur, sk, err, abs,
\* depth_left]; going is FALSE once the loop has ended: read_link() failed
\* or the `break` was taken.
WhileLinkStep(fs, l, follow_symlinks) ==
    IF ~l.going THEN l
    ELSE CHOOSE r \in {IF newlink = None THEN [l EXCEPT !.going = FALSE]
                       ELSE IF follow_symlinks /\ l.st.depth_left # 0
                       THEN [l EXCEPT !.st.sk = TRUE,
                                      !.st.cur = IF newlink[1].abs THEN newlink[1].target
                                                 ELSE Parent(l.st.cur) \o newlink[1].target,
                                      !.st.abs = IF newlink[1].abs THEN l.st.abs ELSE FALSE,
                                      !.st.depth_left = l.st.depth_left - 1]
                       ELSE [l EXCEPT !.st.sk = TRUE, !.going = FALSE] :
                       newlink \in {ReadLink(fs, l.st.cur)}} : TRUE

\* 2^n iterations, the second half only when the loop has not ended.
RECURSIVE WhileLinkSteps(_, _, _, _)
WhileLinkSteps(fs, l, follow_symlinks, n) ==
    IF n = 0 THEN WhileLinkStep(fs, l, follow_symlinks)
    ELSE CHOOSE r \in {IF ~half.going THEN half ELSE WhileLinkSteps(fs, half, follow_symlinks, n - 1) :
                          half \in {WhileLinkSteps(fs, l, follow_symlinks, n - 1)}} : TRUE

\* The loop from l to its end, in runs of 2^n, 2^(n+1), ... iterations.
RECURSIVE WhileLinkFrom(_, _, _, _)
WhileLinkFrom(fs, l, follow_symlinks, n) ==
    CHOOSE r \in {IF ~run.going THEN run ELSE WhileLinkFrom(fs, run, follow_symlinks, n + 1) :
                     run \in {WhileLinkSteps(fs, l, follow_symlinks, n)}} : TRUE

\* The whole loop.
FollowWhileLink(fs, st, follow_symlinks) ==
    CHOOSE r \in {WhileLinkFrom(fs, l, follow_symlinks, 0).st : l \in {[st |-> st, going |-> TRUE]}} : TRUE

\* One step of the fold, ops/mod.rs 1412-1433.
ResolveSegment(fs, st, pp, follow_symlinks) ==
    FollowWhileLink(fs,
                    IF percent_decode(pp) # None
                    THEN [st EXCEPT !.cur = PushStr(st.cur, percent_decode(pp)[1])]
                    ELSE [st EXCEPT !.err = TRUE],
                    follow_symlinks)

\* The fold over the segments that are not empty, ops/mod.rs 1408-1411:
\* the state after the last segment is that step of the fold on the state
\* after the segments before it.
RECURSIVE FoldSegments(_, _, _, _)
FoldSegments(fs, st, segments, follow_symlinks) ==
    IF segments = << >> THEN st
    ELSE CHOOSE r \in {IF segments[Len(segments)] = << >> THEN before
                       ELSE ResolveSegment(fs, before, segments[Len(segments)], follow_symlinks) :
                       before \in {FoldSegments(fs, st, SubSeq(segments, 1, Len(segments) - 1),
                                                follow_symlinks)}} : TRUE

\* The (path, symlink, url_err) triple.
parse_requested_path_custom_symlink(fs, hosted_directory, url_path, follow_symlinks) ==
    With(FoldSegments(fs,
                      [cur |-> hosted_directory, sk |-> FALSE, err |-> FALSE, abs |-> TRUE,
                       depth_left |-> MAX_SYMLINKS],
                      PathSegments(url_path), follow_symlinks), LAMBDA st :
        [req_p |-> IF ~st.abs THEN CanonicalizeOr(fs, st.cur) ELSE st.cur,
         symlink |-> st.sk,
         url_err |-> st.err])

parse_requested_path(fs, hosted_directory, url_path) ==
    parse_requested_path_custom_symlink(fs, hosted_directory, url_path, TRUE)

(***************************************************************************)
(* File names and extensions                                               *)
(***************************************************************************)

DotPositions(name) == {i \in 1..Len(name) : name[i] = "."}

\* Path::file_name: None for the root and for a path that ends in "..".
file_name(p) == IF p = << >> \/ p[Len(p)] = <<".", ".">> THEN None ELSE Some(p[Len(p)])

\* Path::extension: the part of the file name after its last '.', None when
\* the name has no '.' or only a leading one.
extension(p) ==
    IF file_name(p) = None THEN None
    ELSE LET name == file_name(p)[1]
             dots == DotPositions(name) \ {1}
         IN  IF dots = {} THEN None ELSE Some(SubSeq(name, Max(dots) + 1, Len(name)))

\* Path::file_stem
file_stem(p) ==
    LET name == file_name(p)[1]
        dots == DotPositions(name) \ {1}
    IN  IF dots = {} THEN name ELSE SubSeq(name, 1, Max(dots) - 1)

\* Path::with_extension / PathBuf::set_extension
with_extension(p, ext) ==
    IF file_name(p) = None THEN p
    ELSE Append(Parent(p), file_stem(p) \o <<".">> \o ext)

\* Index file extensions to look for (util::INDEX_EXTENSIONS).
INDEX_EXTENSIONS == << <<"h", "t", "m", "l">>, <<"h", "t", "m">>, <<"s", "h", "t", "m", "l">> >>

IndexStem == <<"i", "n", "d", "e", "x">>

\* Iterator::find over a sequence: Some(first element satisfying), or None.
\* `hits` is the set of positions whose element satisfies the predicate.
FirstAt(seq, hits) == IF hits = {} THEN None ELSE Some(seq[Min(hits)])

(***************************************************************************)
(* Filesystem operations of std::fs, as functions from filesystem to       *)
(* filesystem.  [ok |-> FALSE] is an io::Error.                            *)
(***************************************************************************)

\* Path::metadata: the node the path resolves to, symlinks followed.
Metadata(fs, p) == fs[Canonicalize(fs, p).path]

FsErr == [ok |-> FALSE]
FsOk(fs2) == [ok |-> TRUE, fs |-> fs2]

Inodes(fs) == {fs[q].ino : q \in {x \in DOMAIN fs : fs[x].kind = "file"}}
FreshIno(fs) == IF Inodes(fs) = {} THEN 1 ELSE Max(Inodes(fs)) + 1

\* The name of an inode, if it still has one.
InoPaths(fs, ino) == {q \in DOMAIN fs : fs[q].kind = "file" /\ fs[q].ino = ino}

\* Where open(O_CREAT) puts the file: the existing node the path resolves
\* to, or a new name in the directory its parent resolves to.
CreateTarget(fs, p) ==
    IF p = << >> \/ p[Len(p)] = <<".", ".">> THEN NoPath
    ELSE With(Canonicalize(fs, p), LAMBDA there :
         With(Canonicalize(fs, Parent(p)), LAMBDA up :
            IF there.ok THEN there
            ELSE IF KindAt(fs, up, "dir") /\ Append(up.path, p[Len(p)]) \notin DOMAIN fs
            THEN OkPath(Append(up.path, p[Len(p)]))
            ELSE NoPath))

\* fs::File::create followed by writing `data`: the file is created when it
\* does not exist and truncated when it does.
WriteFile(fs, p, data, t) ==
    With(CreateTarget(fs, p), LAMBDA tgt :
        IF ~tgt.ok THEN FsErr
        ELSE IF tgt.path \in DOMAIN fs
        THEN IF fs[tgt.path].kind = "file"
             THEN FsOk([fs EXCEPT ![tgt.path] = [@ EXCEPT !.data = data, !.mtime = t]])
             ELSE FsErr
        ELSE FsOk([q \in DOMAIN fs \cup {tgt.path} |->
                      IF q = tgt.path THEN [kind |-> "file", data |-> data, ino |-> FreshIno(fs), mtime |-> t]
                      ELSE fs[q]]))

\* fs::read: the bytes of a regular file.
ReadFile(fs, p) == IF IsFile(fs, p) THEN Some(Metadata(fs, p).data) ELSE None

\* mkdir of the last component of p.
MakeDir(fs, p) ==
    With(CreateTarget(fs, p), LAMBDA tgt :
        IF tgt.ok /\ tgt.path \notin DOMAIN fs
        THEN [q \in DOMAIN fs \cup {tgt.path} |-> IF q = tgt.path THEN [kind |-> "dir"] ELSE fs[q]]
        ELSE fs)

\* fs::create_dir_all: every missing directory of the path is created; the
\* filesystem is left as it is where a component cannot be created.
RECURSIVE CreateDirAll(_, _)
CreateDirAll(fs, p) ==
    IF Exists(fs, p) \/ p = << >> THEN fs
    ELSE MakeDir(CreateDirAll(fs, Parent(p)), p)

Restrict(fs, keep) == [q \in keep |-> fs[q]]

\* fs::remove_file: unlinks a file or a symlink (the link, not its target).
RemoveFile(fs, p) ==
    With(Walk(fs, << >>, p, OsMaxLinks, FALSE), LAMBDA r :
        IF r.ok /\ fs[r.path].kind \in {"file", "link"}
        THEN FsOk(Restrict(fs, DOMAIN fs \ {r.path}))
        ELSE FsErr)

\* fs::remove_dir_all: a symlink is unlinked, a directory is removed with
\* everything below it.
RemoveDirAll(fs, p) ==
    With(Walk(fs, << >>, p, OsMaxLinks, FALSE), LAMBDA r :
        IF ~r.ok \/ r.path = << >> THEN FsErr
        ELSE IF fs[r.path].kind = "link" THEN FsOk(Restrict(fs, DOMAIN fs \ {r.path}))
        ELSE IF fs[r.path].kind = "dir" THEN FsOk(Restrict(fs, {q \in DOMAIN fs : ~IsPathPrefix(r.path, q)}))
        ELSE FsErr)

\* The filesystem after an operation whose failure is ignored.
OrSame(res, fs) == IF res.ok THEN res.fs ELSE fs

\* Path::read_dir: the names in a directory.
ReadDir(fs, p) ==
    With(Canonicalize(fs, p).path, LAMBDA d :
        {q[Len(q)] : q \in {x \in DOMAIN fs : x # << >> /\ Parent(x) = d}})

\* util::is_actually_file, on the metadata of the path (symlinks followed).
is_actually_file(fs, p) == IsFile(fs, p)

(***************************************************************************)
(* Requests, responses and the state the handlers work on                  *)
(*                                                                         *)
(* A request is a record                                                   *)
(*   [method, path, authorization, range, if_none_match,                   *)
(*    if_modified_since, accept_encoding, content_range, raw_fs, body]     *)
(* with Options for the headers.  A handler maps a world                   *)
(*   w = [fs, cache_fs, cache_fs_files, cache_fs_size, cache_gen,          *)
(*        cache_gen_size, t]                                               *)
(* to [w |-> the world after, r |-> the response].  The response carries   *)
(* status, headers and body, and (a record of what the handler did, no     *)
(* part of the HTTP response) the physical paths it opened for the body,   *)
(* and whether encode_file was called.                                     *)
(* Status 0 stands for a worker that panicked: no response is sent.        *)
(***************************************************************************)

Response(st) ==
    [status |-> st, etag |-> None, www_authenticate |-> FALSE, content_range |-> None,
     content_encoding |-> None, content_length |-> None, allow |-> FALSE, location |-> FALSE,
     body |-> None, opened |-> {}, encode_file_called |-> FALSE]

Out(w, r) == [w |-> w, r |-> r]

\* The environment of a request in which nothing fails, under a build
\* without overflow checks (a release build; with them, a subtraction that
\* would wrap panics).
NoFault == [encode_ok |-> TRUE, body_ok |-> TRUE, copy_ok |-> TRUE, overflow_checks |-> FALSE]

Panic(w) == Out(w, Response(0))

\* html_response(ERROR_HTML, ..) and the listings: the generated page, by
\* what it is made from.
html_response(template, args) == <<"html", template>> \o args

\* blake3::hash(resp.as_bytes()).to_string(), taken as collision-free.
GeneratedEtag(html) == <<"gen", html>>

\* file_etag: device, inode and modification time of the metadata.
file_etag(m) == <<"file", m.ino, m.mtime>>

\* file_length
file_length(m) == Len(m.data)

\* HttpHandler::etag_match
etag_match(req_tags, etag) == \E retag \in req_tags : retag = etag

IsItems(h) == h # None /\ h[1][1] = "items"

\* A check that looks at If-Modified-Since only.
should_304_pathMutant(req, m, etag) ==
    req.if_modified_since # None /\ m.mtime <= req.if_modified_since[1]

\* HttpHandler::should_304_path
should_304_path(req, m, etag) ==
    IF IsItems(req.if_none_match)
    THEN etag_match(req.if_none_match[1][2], etag)
    ELSE IF req.if_modified_since # None
    THEN m.mtime <= req.if_modified_since[1]
    ELSE FALSE

\* The encodings the server can produce, in its order of preference.
SupportedEncodings == <<"br", "gzip", "deflate">>

\* response_encoding: the first encoding of the Accept-Encoding header, of
\* non-zero quality, that the server can produce.
response_encoding(accept_encoding) ==
    IF accept_encoding = None THEN None
    ELSE LET es == accept_encoding[1]
         IN  FirstAt([i \in 1..Len(es) |-> es[i][1]],
                     {i \in 1..Len(es) : es[i][2] # 0 /\ \E j \in 1..Len(SupportedEncodings) : SupportedEncodings[j] = es[i][1]})

\* The encoder: runs of equal bytes shrink to one byte.  What matters of it
\* is that it is a function of the content and that some contents gain and
\* others do not.
RECURSIVE Squeeze(_)
Squeeze(data) ==
    IF Len(data) <= 1 THEN data
    ELSE IF data[1] = data[2] THEN Squeeze(Tail(data))
    ELSE <<data[1]>> \o Squeeze(Tail(data))

\* The length of the encoded form of a generated page.
EncodedHtmlLen(html) == IF html[2] = "error" THEN 1 ELSE 2

\* encode_str: Some(encoded bytes), or None when the encoder fails.
encode_str(html, encoding, ok) == IF ok THEN Some(<<"enc", encoding, html>>) ELSE None

\* HttpHandler::handle_generated_response_encoding
handle_generated_response_encoding(h, w, req, st, html, env) ==
    LET etag == GeneratedEtag(html)
        encoding == response_encoding(req.accept_encoding)
        base == [Response(st) EXCEPT !.etag = Some(etag)]
    IN  IF st = 200 /\ req.method \in {"GET", "HEAD"} /\ IsItems(req.if_none_match)
           /\ etag_match(req.if_none_match[1][2], etag)
        THEN Out(w, [Response(304) EXCEPT !.etag = Some(etag)])
        ELSE IF encoding = None THEN Out(w, [base EXCEPT !.body = Some(html)])
        ELSE LET cache_key == <<html, encoding[1]>>
                 enc_resp == encode_str(html, encoding[1], env.encode_ok)
                 encoded == [base EXCEPT !.content_encoding = encoding]
             IN  IF cache_key \in DOMAIN w.cache_gen
                 THEN Out([w EXCEPT !.cache_gen[cache_key].atime = w.t],
                          [encoded EXCEPT !.body = Some(w.cache_gen[cache_key].data)])
                 ELSE IF enc_resp = None THEN Out(w, [base EXCEPT !.body = Some(html)])
                 ELSE IF EncodedHtmlLen(html) <= h.encoded_generated_limit
                 THEN Out([w EXCEPT !.cache_gen_size = @ + EncodedHtmlLen(html),
                                    !.cache_gen = [k \in DOMAIN @ \cup {cache_key} |->
                                                      IF k = cache_key
                                                      THEN [data |-> enc_resp[1], len |-> EncodedHtmlLen(html), atime |-> w.t]
                                                      ELSE @[k]]],
                          [encoded EXCEPT !.body = enc_resp])
                 ELSE Out(w, [encoded EXCEPT !.body = enc_resp])

\* url_path: the request path as the error pages print it.
url_path(req) == req.path

handle_invalid_url(h, w, req, cause, env) ==
    handle_generated_response_encoding(h, w, req, 400, html_response("error", <<"400", cause>>), env)

handle_nonexistent(h, w, req, env) ==
    handle_generated_response_encoding(h, w, req, 404, html_response("error", <<"404", url_path(req)>>), env)

handle_forbidden_method(h, w, req, env) ==
    handle_generated_response_encoding(h, w, req, 403, html_response("error", <<"403", "disabled">>), env)

handle_disallowed_method(h, w, req, env) ==
    LET o == handle_generated_response_encoding(h, w, req, 405, html_response("error", <<"405", req.method>>), env)
    IN  Out(o.w, [o.r EXCEPT !.allow = TRUE])

handle_bad_method(h, w, req, env) ==
    handle_generated_response_encoding(h, w, req, 501, html_response("error", <<"501", req.method>>), env)

handle_invalid_range(h, w, req, env) ==
    handle_generated_response_encoding(h, w, req, 416, html_response("error", <<"416", url_path(req)>>), env)

(***************************************************************************)
(* Static File Responder                                                   *)
(***************************************************************************)

\* The file-size window of the encoding path, and the least gain
\* (original size / encoded size, as the fraction GainNum / GainDen) an
\* encoded file must reach to be kept.  Sizes are in bytes of the model.
MIN_ENCODING_SIZE == 1
MAX_ENCODING_SIZE == 8
MIN_ENCODING_GAIN_NUM == 11
MIN_ENCODING_GAIN_DEN == 10

\* The atime of a rejected entry: u64::MAX, the largest integer.
U64_MAX == 2147483647

\* Extensions of formats that are compressed already.
extension_is_blacklisted(ext) == ext \in {<<"g", "z">>, <<"m", "p", "4">>}

\* The path a File::open resolves to.
Physical(fs, p) == Canonicalize(fs, p).path

\* The identity response of a file: 200 with the file as the body.
FileResponse(fs, req_p, etag) ==
    [Response(200) EXCEPT !.etag = Some(etag),
                          !.content_length = Some(file_length(Metadata(fs, req_p))),
                          !.body = Some(Metadata(fs, req_p).data),
                          !.opened = {Physical(fs, req_p)}]

\* HttpHandler::create_temp_dir
create_temp_dir(fs, td) == IF ~Exists(fs, td[1]) THEN CreateDirAll(fs, td[1]) ELSE fs

\* file_hash: the content hash, taken as collision-free: the digest of a
\* content is a name of its own, distinct from the content.
file_hash(data) == <<"#">> \o data

\* encoding_extension
encoding_extension(encoding) == IF encoding = "gzip" THEN <<"g", "z">>
                                ELSE IF encoding = "br" THEN <<"b", "r">>
                                ELSE <<"d", "f", "l">>

\* The name of the encoded file: hex(hash)[.ext].enc under encoded/.
EncodedPath(h, hash, req_p, encoding) ==
    Append(h.encoded_temp_dir[1],
           hash \o (IF extension(req_p) # None THEN <<".">> \o extension(req_p)[1] ELSE << >>)
                \o <<".">> \o encoding_extension(encoding))

\* The lookup of the hash of a file by its ETag, ops/mod.rs 654-667: the
\* sidecar map after, and the hash.
HashByEtag(cache_fs_files_, etag, data) ==
    IF etag \in DOMAIN cache_fs_files_
    THEN [files |-> cache_fs_files_, hash |-> cache_fs_files_[etag]]
    ELSE [files |-> [e \in DOMAIN cache_fs_files_ \cup {etag} |->
                        IF e = etag THEN file_hash(data) ELSE cache_fs_files_[e]],
          hash |-> file_hash(data)]

\* TRUE when the encoded file is not kept, ops/mod.rs 710.
EncodingRejected(h, flen, resp_p_len) ==
    \/ flen * MIN_ENCODING_GAIN_DEN < MIN_ENCODING_GAIN_NUM * resp_p_len
    \/ resp_p_len > h.encoded_filesystem_limit

MapPut(map, k, v) == [x \in DOMAIN map \cup {k} |-> IF x = k THEN v ELSE map[x]]

\* A miss that puts the entry in and leaves the counter as it is.
StoreEncodedMutant(h, w, cache_key, resp_p, flen, resp_p_len) ==
    [ok |-> TRUE,
     w |-> [w EXCEPT !.cache_fs = MapPut(@, cache_key, [path |-> resp_p, present |-> TRUE, size |-> resp_p_len, atime |-> w.t])]]

\* The write-locked section of a miss, ops/mod.rs 710-723, on the cache
\* map, its counter and the filesystem.
StoreEncoded(h, w, cache_key, resp_p, flen, resp_p_len) ==
    IF EncodingRejected(h, flen, resp_p_len)
    THEN With(RemoveFile(w.fs, resp_p), LAMBDA rm :
         [ok |-> rm.ok,
          w |-> [w EXCEPT !.cache_fs = MapPut(@, cache_key, [path |-> << >>, present |-> FALSE, size |-> 0, atime |-> U64_MAX]),
                          !.fs = IF rm.ok THEN rm.fs ELSE @]])
    ELSE [ok |-> TRUE,
          w |-> [w EXCEPT !.cache_fs_size = @ + resp_p_len,
                          !.cache_fs = MapPut(@, cache_key, [path |-> resp_p, present |-> TRUE, size |-> resp_p_len, atime |-> w.t])]]

\* Response::with(resp_p.as_path()): the encoded file as the body; the
\* worker panics when the file cannot be opened.
EncodedFileResponse(w, resp_p, etag, encoding) ==
    IF IsFile(w.fs, resp_p)
    THEN Out(w, [Response(200) EXCEPT !.etag = Some(etag), !.content_encoding = Some(encoding),
                                      !.body = Some(Metadata(w.fs, resp_p).data),
                                      !.opened = {Physical(w.fs, resp_p)}])
    ELSE Panic(w)

\* The response to a miss whose encoded file was written, ops/mod.rs
\* 708-731.
EncodedMissResponse(stored, req_p, resp_p, cache_key, etag) ==
    IF ~stored.ok THEN Panic(stored.w)
    ELSE IF stored.w.cache_fs[cache_key].present
    THEN EncodedFileResponse(stored.w, resp_p, etag, cache_key[2])
    ELSE Out(stored.w, FileResponse(stored.w.fs, req_p, etag))

\* handle_get_file_encoded after a miss, ops/mod.rs 699-750: the file is
\* encoded, and kept or rejected.
EncodedMiss(h, w, req_p, etag, cache_key, data, resp_p, env) ==
    With(WriteFile(w.fs, resp_p, Squeeze(data), w.t), LAMBDA written :
    With(IF env.encode_ok /\ written.ok
         THEN EncodedMissResponse(StoreEncoded(h, [w EXCEPT !.fs = written.fs], cache_key, resp_p,
                                               Len(data), Len(Squeeze(data))),
                                  req_p, resp_p, cache_key, etag)
         ELSE Out(w, FileResponse(w.fs, req_p, etag)),
         LAMBDA o : Out(o.w, [o.r EXCEPT !.encode_file_called = TRUE])))

\* A lookup that finds nothing.
EncodedLookupMutant(h, w, req_p, etag, cache_key, data, resp_p, env) ==
    EncodedMiss(h, w, req_p, etag, cache_key, data, resp_p, env)

\* A lookup that takes a rejected entry for none, and encodes again.
EncodedLookupRetryMutant(h, w, req_p, etag, cache_key, data, resp_p, env) ==
    IF cache_key \in DOMAIN w.cache_fs /\ w.cache_fs[cache_key].present
    THEN EncodedFileResponse([w EXCEPT !.cache_fs[cache_key].atime = w.t],
                             w.cache_fs[cache_key].path, etag, cache_key[2])
    ELSE EncodedMiss(h, w, req_p, etag, cache_key, data, resp_p, env)

\* handle_get_file_encoded from the lookup of the cache key on, ops/mod.rs
\* 668-750.
EncodedLookup(h, w, req_p, etag, cache_key, data, resp_p, env) ==
    IF cache_key \in DOMAIN w.cache_fs
    THEN IF w.cache_fs[cache_key].present
         THEN EncodedFileResponse([w EXCEPT !.cache_fs[cache_key].atime = w.t],
                                  w.cache_fs[cache_key].path, etag, cache_key[2])
         ELSE Out(w, [FileResponse(w.fs, req_p, etag) EXCEPT !.content_length = None])
    ELSE EncodedMiss(h, w, req_p, etag, cache_key, data, resp_p, env)

\* HttpHandler::handle_get_file_encoded
handle_get_file_encoded(h, w, req, req_p, etag, env) ==
    With(response_encoding(req.accept_encoding), LAMBDA encoding :
    With(Metadata(w.fs, req_p).data, LAMBDA data :
    With(HashByEtag(w.cache_fs_files, etag, data), LAMBDA hashed :
        IF encoding = None THEN Out(w, FileResponse(w.fs, req_p, etag))
        ELSE EncodedLookup(h,
                           [w EXCEPT !.fs = create_temp_dir(@, h.encoded_temp_dir),
                                     !.cache_fs_files = hashed.files],
                           req_p, etag, <<hashed.hash, encoding[1]>>, data,
                           EncodedPath(h, hashed.hash, req_p, encoding[1]), env))))

\* HttpHandler::handle_get_file
handle_get_file(h, w, req, req_p, env) ==
    LET m == Metadata(w.fs, req_p)
        etag == file_etag(m)
        flen == file_length(m)
    IN  IF should_304_path(req, m, etag) THEN Out(w, [Response(304) EXCEPT !.etag = Some(etag)])
        ELSE IF /\ h.encoded_temp_dir # None
                /\ flen > MIN_ENCODING_SIZE
                /\ flen < MAX_ENCODING_SIZE
                /\ (extension(req_p) = None \/ ~extension_is_blacklisted(extension(req_p)[1]))
        THEN handle_get_file_encoded(h, w, req, req_p, etag, env)
        ELSE Out(w, FileResponse(w.fs, req_p, etag))

\* Subtraction of u64 in a release build: it wraps.
U64Sub(a, b) == IF a >= b THEN a - b ELSE U64_MAX - (b - a) + 1

\* A read that stops one byte early.
ReadExactMutant(data, from, len) ==
    IF from + len <= Len(data) THEN Some(SubSeq(data, from + 1, from + len - 1)) ELSE None

\* The bytes data[from..from+len], None when the file ends before.
ReadExact(data, from, len) ==
    IF from + len <= Len(data) THEN Some(SubSeq(data, from + 1, from + len)) ELSE None

RangeResponse(fs, req_p, st, etag, from, to) ==
    [Response(st) EXCEPT !.etag = Some(etag),
                         !.content_range = Some(<<from, to, file_length(Metadata(fs, req_p))>>)]

\* HttpHandler::handle_get_file_closed_range
handle_get_file_closed_range(w, req_p, from, to, etag) ==
    LET buf == ReadExact(Metadata(w.fs, req_p).data, from, to + 1 - from)
    IN  IF buf = None THEN Panic(w)
        ELSE Out(w, [RangeResponse(w.fs, req_p, 206, etag, from, to) EXCEPT
                         !.body = buf, !.opened = {Physical(w.fs, req_p)}])

\* HttpHandler::handle_get_file_opened_range: the file from the seek
\* position to its end.  flen - 1 of an empty file wraps, or panics in a
\* build with overflow checks.
handle_get_file_opened_range(w, req_p, b_from, clen, etag, env) ==
    LET data == Metadata(w.fs, req_p).data
        flen == Len(data)
    IN  IF flen < 1 /\ env.overflow_checks THEN Panic(w)
        ELSE Out(w, [RangeResponse(w.fs, req_p, 206, etag, b_from, U64Sub(flen, 1)) EXCEPT
                         !.content_length = Some(clen),
                         !.body = Some(SubSeq(data, b_from + 1, flen)),
                         !.opened = {Physical(w.fs, req_p)}])

\* HttpHandler::handle_get_file_empty_range
handle_get_file_empty_range(w, req_p, from, to, etag) ==
    Out(w, RangeResponse(w.fs, req_p, 204, etag, from, to))

\* HttpHandler::handle_get_file_range.  A Range header is Some of
\* <<"FromTo", a, b>>, <<"AllFrom", a>>, <<"Last", n>> (one byte range),
\* <<"Multi">> (several) or <<"Unregistered">> (another unit).
handle_get_file_range(h, w, req, req_p, range, env) ==
    LET m == Metadata(w.fs, req_p)
        flen == file_length(m)
        etag == file_etag(m) \o <<"+">> \o range
    IN  IF range[1] \in {"Multi", "Unregistered"} THEN handle_invalid_range(h, w, req, env)
        ELSE IF should_304_path(req, m, etag) THEN Out(w, [Response(304) EXCEPT !.etag = Some(etag)])
        ELSE IF range[1] = "FromTo" THEN handle_get_file_closed_range(w, req_p, range[2], range[3], etag)
        ELSE IF flen < range[2] THEN handle_get_file_empty_range(w, req_p, range[2], flen, etag)
        ELSE IF range[1] = "AllFrom"
        THEN handle_get_file_opened_range(w, req_p, range[2], flen - range[2], etag, env)
        ELSE handle_get_file_opened_range(w, req_p, flen - range[2], range[2], etag, env)

(***************************************************************************)
(* Directory Lister                                                        *)
(***************************************************************************)

\* The filter of the directory entries (ops/mod.rs 766-774, 1007-1015).
\* `symlink` is assigned only where follow_symlinks is off.
EntryListed(h, fs, fp) ==
    LET symlink == IF ~h.follow_symlinks THEN is_symlink(fs, fp) ELSE FALSE
    IN  ~(\/ (~h.follow_symlinks /\ symlink)
          \/ (h.follow_symlinks /\ h.sandbox_symlinks /\ symlink /\ ~is_descendant_of(fs, fp, h.hosted_directory)))

ListedEntries(h, fs, req_p) == {name \in ReadDir(fs, req_p) : EntryListed(h, fs, Append(req_p, name))}

\* HttpHandler::handle_get_dir_listing
handle_get_dir_listing(h, w, req, req_p, env) ==
    LET o == handle_generated_response_encoding(h, w, req, 200,
                 html_response("listing", <<url_path(req), ListedEntries(h, w.fs, req_p)>>), env)
    IN  Out(o.w, [o.r EXCEPT !.opened = {Physical(w.fs, req_p)}])

\* HttpHandler::handle_get_raw_fs_file and handle_get_raw_fs_dir
handle_get_raw_fs(h, w, req_p) ==
    Out(w, [Response(200) EXCEPT
                !.body = Some(<<"json", is_actually_file(w.fs, req_p),
                                IF is_actually_file(w.fs, req_p) THEN {} ELSE ListedEntries(h, w.fs, req_p)>>),
                !.opened = {Physical(w.fs, req_p)}])

\* The index file handle_get_dir finds (ops/mod.rs 795-802): Some(path of
\* the first index.<ext> that passes), or None.
FindIndex(h, fs, req_p) ==
    LET idx(e) == with_extension(Append(req_p, IndexStem), e)
    IN  FirstAt([i \in 1..Len(INDEX_EXTENSIONS) |-> idx(INDEX_EXTENSIONS[i])],
                {i \in 1..Len(INDEX_EXTENSIONS) :
                    /\ Exists(fs, idx(INDEX_EXTENSIONS[i]))
                    /\ \/ ~h.follow_symlinks \/ ~h.sandbox_symlinks
                       \/ (h.follow_symlinks /\ h.sandbox_symlinks
                           /\ is_descendant_of(fs, req_p, h.hosted_directory))})

\* HttpHandler::handle_get_dir
handle_get_dir(h, w, req, req_p, env) ==
    LET idx == IF h.check_indices THEN FindIndex(h, w.fs, req_p) ELSE None
    IN  IF idx # None
        THEN IF EndsWithSlash(req.path)
             THEN handle_get_file(h, w, req, idx[1], env)
             ELSE Out(w, [Response(303) EXCEPT !.location = TRUE])
        ELSE IF ~h.generate_listings THEN handle_nonexistent(h, w, req, env)
        ELSE handle_get_dir_listing(h, w, req, req_p, env)

(***************************************************************************)
(* Request Dispatcher and Write Handler                                    *)
(***************************************************************************)

\* The condition under which GET and DELETE answer 404 (ops/mod.rs 372-373,
\* 1219-1220).
Unreachable(h, fs, req_p, symlink) ==
    \/ ~Exists(fs, req_p)
    \/ (symlink /\ ~h.follow_symlinks)
    \/ (symlink /\ h.follow_symlinks /\ h.sandbox_symlinks /\ ~is_descendant_of(fs, req_p, h.hosted_directory))

\* The extension-less path completed to an index extension, ops/mod.rs
\* 366-370.
StripExtension(h, fs, req_p) ==
    LET hits == {i \in 1..Len(INDEX_EXTENSIONS) : Exists(fs, with_extension(req_p, INDEX_EXTENSIONS[i]))}
    IN  IF ~Exists(fs, req_p) /\ extension(req_p) = None /\ h.strip_extensions /\ hits # {}
        THEN with_extension(req_p, INDEX_EXTENSIONS[Min(hits)])
        ELSE req_p

\* HttpHandler::handle_get
handle_get(h, w, req, env) ==
    With(parse_requested_path(w.fs, h.hosted_directory, req.path), LAMBDA parsed :
    With(StripExtension(h, w.fs, parsed.req_p), LAMBDA req_p :
        IF parsed.url_err THEN handle_invalid_url(h, w, req, "utf8", env)
        ELSE IF Unreachable(h, w.fs, req_p, parsed.symlink) THEN handle_nonexistent(h, w, req, env)
        ELSE IF req.raw_fs THEN handle_get_raw_fs(h, w, req_p)
        ELSE IF ~is_actually_file(w.fs, req_p) THEN handle_get_dir(h, w, req, req_p, env)
        ELSE IF req.range # None THEN handle_get_file_range(h, w, req, req_p, req.range[1], env)
        ELSE handle_get_file(h, w, req, req_p, env)))

\* A handler that forgets the staged file.
FinallyMutant(fs, temp_file_p) == fs

\* `finally`: the staged file is removed, whether or not that works.
Finally(fs, temp_file_p) == OrSame(RemoveFile(fs, temp_file_p), fs)

\* fs::copy(&temp_file_p, &req_p), ops/mod.rs 1195.  When the copy fails
\* (env.copy_ok is FALSE: the disk is full, say) the target it could open is
\* left emptied.
CopyStaged(fs, req_p, data, t, env) ==
    IF env.copy_ok THEN WriteFile(fs, req_p, data, t)
    ELSE [ok |-> FALSE, fs |-> OrSame(WriteFile(fs, req_p, << >>, t), fs)]

\* handle_put_file from the staged body on, ops/mod.rs 1190-1208.  `staged`
\* is the outcome of File::create(&temp_file_p); the body that io::copy
\* reads may end in an error (env.body_ok is FALSE), and then `catch` runs
\* `finally` before the worker panics, as it does when fs::copy fails.
PutStaged(w, req, req_p, legal, existent, temp_file_p, staged, env) ==
    IF ~staged.ok THEN Panic(w)
    ELSE IF ~env.body_ok THEN Panic([w EXCEPT !.fs = Finally(staged.fs, temp_file_p)])
    ELSE IF ~legal THEN Out([w EXCEPT !.fs = Finally(staged.fs, temp_file_p)], Response(201))
    ELSE With(CreateDirAll(staged.fs, Parent(req_p)), LAMBDA made :
         With(CopyStaged(made, req_p, req.body, w.t, env), LAMBDA copied :
            IF ~copied.ok THEN Panic([w EXCEPT !.fs = Finally(IF env.copy_ok THEN made ELSE copied.fs, temp_file_p)])
            ELSE Out([w EXCEPT !.fs = Finally(copied.fs, temp_file_p)],
                     Response(IF ~existent THEN 201 ELSE 204))))

\* HttpHandler::handle_put_file
handle_put_file(h, w, req, req_p, legal, env) ==
    IF file_name(req_p) = None THEN Panic(w)
    ELSE PutStaged(w, req, req_p, legal, ~legal \/ Exists(w.fs, req_p),
                   Append(h.writes_temp_dir[1], file_name(req_p)[1]),
                   WriteFile(w.fs, Append(h.writes_temp_dir[1], file_name(req_p)[1]), req.body, w.t), env)

\* The value of the variable `legal` of handle_put, ops/mod.rs 1122-1123:
\* TRUE when the target is not to be written.
PutIllegal(h, fs, req_p, symlink) ==
    \/ (symlink /\ ~h.follow_symlinks)
    \/ (symlink /\ h.follow_symlinks /\ h.sandbox_symlinks
        /\ ~is_nonexistent_descendant_of(fs, req_p, h.hosted_directory))

\* A handle_put that lets partial content through.
PutRefusalMutant(fs, req, parsed) ==
    IF parsed.url_err THEN Some("utf8")
    ELSE IF IsDir(fs, parsed.req_p) THEN Some("directory")
    ELSE IF detect_file_as_dir(fs, parsed.req_p) THEN Some("file as directory")
    ELSE None

\* The refusal of handle_put, ops/mod.rs 1113-1120, or None when the request
\* gets through.
PutRefusal(fs, req, parsed) ==
    IF parsed.url_err THEN Some("utf8")
    ELSE IF IsDir(fs, parsed.req_p) THEN Some("directory")
    ELSE IF detect_file_as_dir(fs, parsed.req_p) THEN Some("file as directory")
    ELSE IF req.content_range THEN Some("partial content")
    ELSE None

\* HttpHandler::handle_put
handle_put(h, w, req, env) ==
    With(parse_requested_path(w.fs, h.hosted_directory, req.path), LAMBDA parsed :
    With(PutRefusal(w.fs, req, parsed), LAMBDA refusal :
        IF h.writes_temp_dir = None THEN handle_forbidden_method(h, w, req, env)
        ELSE IF refusal = Some("directory") THEN handle_disallowed_method(h, w, req, env)
        ELSE IF refusal # None THEN handle_invalid_url(h, w, req, refusal[1], env)
        ELSE handle_put_file(h, [w EXCEPT !.fs = create_temp_dir(@, h.writes_temp_dir)], req, parsed.req_p,
                             ~PutIllegal(h, w.fs, parsed.req_p, parsed.symlink), env)))

\* HttpHandler::handle_delete_path
handle_delete_path(w, req_p) ==
    With(IF is_actually_file(w.fs, req_p) THEN RemoveFile(w.fs, req_p) ELSE RemoveDirAll(w.fs, req_p),
         LAMBDA removed : IF removed.ok THEN Out([w EXCEPT !.fs = removed.fs], Response(204)) ELSE Panic(w))

\* HttpHandler::handle_delete
handle_delete(h, w, req, env) ==
    With(parse_requested_path_custom_symlink(w.fs, h.hosted_directory, req.path, FALSE), LAMBDA parsed :
        IF h.writes_temp_dir = None THEN handle_forbidden_method(h, w, req, env)
        ELSE IF parsed.url_err THEN handle_invalid_url(h, w, req, "utf8", env)
        ELSE IF Unreachable(h, w.fs, parsed.req_p, parsed.symlink) THEN handle_nonexistent(h, w, req, env)
        ELSE handle_delete_path(w, parsed.req_p))

\* HttpHandler::handle_options and handle_trace
handle_options(w) == Out(w, [Response(204) EXCEPT !.allow = TRUE])
handle_trace(w) == Out(w, Response(200))

\* The 401 of verify_auth.
Unauthorized(authorization) ==
    [Response(401) EXCEPT !.www_authenticate = TRUE,
                          !.body = Some(<<"text", IF authorization = None THEN "Credentials required."
                                                  ELSE "Supplied credentials invalid.">>)]

\* The answer to a HEAD: that to the GET, without the body.
WithoutBody(o) == Out(o.w, [o.r EXCEPT !.body = None])

\* The match on the method of HttpHandler::handle.  The server runs with
\* WebDAV disabled: the arm of the extension methods (COPY, MKCOL, MOVE,
\* PROPFIND, PROPPATCH and the unknown ones) is handle_bad_method, as is the
\* arm of the other methods.
Dispatch(h, w, req, env) ==
    IF req.method = "OPTIONS" THEN handle_options(w)
    ELSE IF req.method = "GET" \/ req.method = "HEAD"
    THEN With(handle_get(h, w, req, env), LAMBDA o : IF req.method = "HEAD" THEN WithoutBody(o) ELSE o)
    ELSE IF req.method = "PUT" THEN handle_put(h, w, req, env)
    ELSE IF req.method = "DELETE" THEN handle_delete(h, w, req, env)
    ELSE IF req.method = "TRACE" THEN handle_trace(w)
    ELSE handle_bad_method(h, w, req, env)

\* HttpHandler::handle
handle(h, w, req, env) ==
    IF ~AuthGatePasses(h.global_auth_data, h.path_auth_data, req.path, req.authorization)
    THEN Out(w, Unauthorized(req.authorization))
    ELSE Dispatch(h, w, req, env)

(***************************************************************************)
(* Pruner: PruneChain::prune.  Each phase runs under the write locks of    *)
(* its maps, so a phase is a function of the state it starts in; where the *)
(* minimum atime is shared by several entries, min_by_key takes the first  *)
(* in the map's iteration order, which is any of them: a phase yields the  *)
(* set of its possible outcomes.                                           *)
(***************************************************************************)

\* Time is counted in ticks, TicksPerSecond of them to the second (the
\* code's nanoseconds, scaled).
TicksPerSecond == 2

\* The least prune interval, in seconds, and the divisor of encoded_prune.
MinPruneInterval == 10
PruneIntervalDivisor == 6

\* PruneChain::new: prune_interval
prune_interval(encoded_prune) ==
    LET sixth == (IF encoded_prune = None THEN 0 ELSE encoded_prune[1]) \div PruneIntervalDivisor
    IN  IF sixth > MinPruneInterval THEN sixth ELSE MinPruneInterval

\* The keys of the youngest entries.
MinAtimeKeysMutant(cache) == {k \in DOMAIN cache : \A j \in DOMAIN cache : cache[k].atime >= cache[j].atime}

\* The keys min_by_key may return.
MinAtimeKeys(cache) == {k \in DOMAIN cache : \A j \in DOMAIN cache : cache[k].atime <= cache[j].atime}

\* A loop that drops the entry whose file it could not remove.
RECURSIVE EvictFsMutant(_, _, _)
EvictFsMutant(st, size, limit) ==
    IF ~(U64Sub(size, st.freed) > limit) \/ DOMAIN st.cache = {} THEN {st}
    ELSE UNION {LET rm == RemoveFile(st.fs, st.cache[key].path)
                IN  EvictFsMutant([fs |-> IF rm.ok THEN rm.fs ELSE st.fs,
                                   cache |-> Restrict(st.cache, DOMAIN st.cache \ {key}),
                                   freed |-> st.freed + st.cache[key].size,
                                   removed |-> st.removed \cup {key[1]}],
                                  size, limit) : key \in MinAtimeKeys(st.cache)}

\* The loop of prune.rs 48-61 from one state of it: the set of the states
\* it may end in.
RECURSIVE EvictFs(_, _, _)
EvictFs(st, size, limit) ==
    IF ~(U64Sub(size, st.freed) > limit) \/ DOMAIN st.cache = {} THEN {st}
    ELSE UNION {LET rm == RemoveFile(st.fs, st.cache[key].path)
                IN  IF rm.ok
                    THEN EvictFs([fs |-> rm.fs,
                                  cache |-> Restrict(st.cache, DOMAIN st.cache \ {key}),
                                  freed |-> st.freed + st.cache[key].size,
                                  removed |-> st.removed \cup {key[1]}],
                                 size, limit)
                    ELSE {st} : key \in MinAtimeKeys(st.cache)}

\* cache_files.retain(|_, v| !removed_file_hashes.contains(v))
RetainFiles(files, removed) == Restrict(files, {e \in DOMAIN files : files[e] \notin removed})

\* The filesystem size-cap phase, prune.rs 40-65.
PruneFsCap(h, w) ==
    IF h.opts.encoded_filesystem_limit # None /\ w.cache_fs_size > h.opts.encoded_filesystem_limit[1]
    THEN {[w EXCEPT !.fs = st.fs,
                    !.cache_fs = st.cache,
                    !.cache_fs_size = U64Sub(@, st.freed),
                    !.cache_fs_files = RetainFiles(@, st.removed)] :
             st \in EvictFs([fs |-> w.fs, cache |-> w.cache_fs, freed |-> 0, removed |-> {}],
                            w.cache_fs_size, h.opts.encoded_filesystem_limit[1])}
    ELSE {w}

\* The loop of prune.rs 75-82.
RECURSIVE EvictGen(_, _, _)
EvictGen(st, size, limit) ==
    IF ~(U64Sub(size, st.freed) > limit) \/ DOMAIN st.cache = {} THEN {st}
    ELSE UNION {EvictGen([cache |-> Restrict(st.cache, DOMAIN st.cache \ {key}),
                          freed |-> st.freed + st.cache[key].len],
                         size, limit) : key \in MinAtimeKeys(st.cache)}

\* The generated size-cap phase, prune.rs 67-85.
PruneGenCap(h, w) ==
    IF h.opts.encoded_generated_limit # None /\ w.cache_gen_size > h.opts.encoded_generated_limit[1]
    THEN {[w EXCEPT !.cache_gen = st.cache, !.cache_gen_size = U64Sub(@, st.freed)] :
             st \in EvictGen([cache |-> w.cache_gen, freed |-> 0], w.cache_gen_size,
                             h.opts.encoded_generated_limit[1])}
    ELSE {w}

\* The test of the two retain closures: the entry is young enough to stay.
Fresh(atime, start, limit) == atime > start \/ (start - atime) \div TicksPerSecond <= limit

RECURSIVE RemoveFiles(_, _)
RemoveFiles(fs, paths) ==
    IF paths = {} THEN fs
    ELSE LET q == CHOOSE x \in paths : TRUE
         IN  RemoveFiles(RemoveFile(fs, q).fs, paths \ {q})

SumOf(cache, keys, field) ==
    LET RECURSIVE Sum(_)
        Sum(ks) == IF ks = {} THEN 0
                   ELSE LET k == CHOOSE x \in ks : TRUE IN cache[k][field] + Sum(ks \ {k})
    IN  Sum(keys)

\* A sweep that takes the rejected entries with the old ones.
SweepFsMutant(w, start, limit) ==
    LET gone_fs == {k \in DOMAIN w.cache_fs :
                       \/ ~w.cache_fs[k].present
                       \/ ~Fresh(w.cache_fs[k].atime, start, limit) /\ RemoveFile(w.fs, w.cache_fs[k].path).ok}
    IN  [w EXCEPT !.fs = RemoveFiles(@, {w.cache_fs[k].path : k \in {x \in gone_fs : w.cache_fs[x].present}}),
                  !.cache_fs = Restrict(@, DOMAIN @ \ gone_fs),
                  !.cache_fs_size = U64Sub(@, SumOf(w.cache_fs, gone_fs, "size")),
                  !.cache_fs_files = RetainFiles(@, {k[1] : k \in gone_fs})]

\* The sweep of the filesystem cache, prune.rs 95-112: the entries that are
\* old and whose file could be removed go, with their size and the sidecar
\* keys of their fingerprints.
SweepFs(w, start, limit) ==
    LET gone_fs == {k \in DOMAIN w.cache_fs :
                       ~Fresh(w.cache_fs[k].atime, start, limit) /\ RemoveFile(w.fs, w.cache_fs[k].path).ok}
    IN  [w EXCEPT !.fs = RemoveFiles(@, {w.cache_fs[k].path : k \in gone_fs}),
                  !.cache_fs = Restrict(@, DOMAIN @ \ gone_fs),
                  !.cache_fs_size = U64Sub(@, SumOf(w.cache_fs, gone_fs, "size")),
                  !.cache_fs_files = RetainFiles(@, {k[1] : k \in gone_fs})]

\* A sweep of the generated cache that keeps what is exactly a TTL and a
\* second old.
SweepGenMutant(w, start, limit) ==
    LET gone_gen == {k \in DOMAIN w.cache_gen : ~Fresh(w.cache_gen[k].atime, start, limit + 1)}
    IN  [w EXCEPT !.cache_gen = Restrict(@, DOMAIN @ \ gone_gen),
                  !.cache_gen_size = U64Sub(@, SumOf(w.cache_gen, gone_gen, "len"))]

\* The sweep of the generated cache, prune.rs 115-126.
SweepGen(w, start, limit) ==
    LET gone_gen == {k \in DOMAIN w.cache_gen : ~Fresh(w.cache_gen[k].atime, start, limit)}
    IN  [w EXCEPT !.cache_gen = Restrict(@, DOMAIN @ \ gone_gen),
                  !.cache_gen_size = U64Sub(@, SumOf(w.cache_gen, gone_gen, "len"))]

\* The age sweep of both caches, prune.rs 94-126.
SweepByAge(w, start, limit) == SweepGen(SweepFs(w, start, limit), start, limit)

\* The age phase, prune.rs 87-128: the world and last_prune after.
PruneByAge(h, w, last) ==
    IF h.opts.encoded_prune = None THEN [w |-> w, last_prune |-> last]
    ELSE [w |-> IF last < w.t /\ (w.t - last) \div TicksPerSecond >= h.prune_interval
                THEN SweepByAge(w, w.t, h.opts.encoded_prune[1])
                ELSE w,
          last_prune |-> w.t]

\* PruneChain::prune, run alone: the set of its outcomes.
prune(h, w, last) ==
    {PruneByAge(h, w2, last) : w2 \in UNION {PruneGenCap(h, w1) : w1 \in PruneFsCap(h, w)}}

(***************************************************************************)
(* SpecAuth: verify_auth applied to every URL path up to a length          *)
(***************************************************************************)

MaxAuthPathLen == 6

AuthAlphabet == {"/", "a", "b"}

RECURSIVE StringsUpTo(_, _)
StringsUpTo(alphabet, n) ==
    IF n = 0 THEN {<< >>}
    ELSE LET shorter == StringsUpTo(alphabet, n - 1)
         IN  shorter \cup {Append(s, c) : s \in {t \in shorter : Len(t) = n - 1}, c \in alphabet}

\* Url::path() always starts with '/'.
AuthPaths == {<<"/">> \o s : s \in StringsUpTo(AuthAlphabet, MaxAuthPathLen - 1)}

\* The keys a per-path policy may be configured on.
AuthKeys == {<<"a">>, <<"b">>, <<"a", "b">>, <<"a", "/", "b">>, <<"a", "/", "a">>, <<"b", "/", "a">>}

\* The credentials configured for key k: a user of its own per key, so that
\* the policy applied tells which key was matched.  A key may also be mapped
\* to None (no authentication below that prefix).
KeyUser(k) == IF k = <<"a">> THEN "ua"
              ELSE IF k = <<"b">> THEN "ub"
              ELSE IF k = <<"a", "b">> THEN "uab"
              ELSE IF k = <<"a", "/", "b">> THEN "ua_b"
              ELSE IF k = <<"a", "/", "a">> THEN "ua_a"
              ELSE "ub_a"
KeyCreds(k) == Some(<<KeyUser(k), Some("pw")>>)

GlobalCreds == Some(<<"g", None>>)

AuthConfigs ==
    {[global |-> g, paths |-> [k \in ks |-> IF k = open THEN None ELSE KeyCreds(k)]] :
        g \in {None, GlobalCreds},
        ks \in {s \in SUBSET AuthKeys : Cardinality(s) <= 2},
        open \in {<<"b">>, <<"x">>}}

AuthHeaders == {None, Some(<<"ua", Some("pw")>>), Some(<<"ua_b", Some("pw")>>), Some(<<"g", Some("")>>),
                Some(<<"g", Some("pw")>>), Some(<<"ua", None>>)}

AuthIdle == authIn = << >> /\ authOut = << >>

\* The server before any request: empty caches, counters at zero.
ServerIdle(h, fs0) ==
    /\ handler = h
    /\ disk = fs0
    /\ cache_fs = << >> /\ cache_fs_files = << >> /\ cache_fs_size = 0
    /\ cache_gen = << >> /\ cache_gen_size = 0
    /\ last_prune = 0
    /\ now = 1

WorkerIdle == resp = << >> /\ stage = "handle" /\ nreq = 0

PutIdle == puts = << >> /\ orphans = << >> /\ observed = << >>

CacheIdle == gets = << >> /\ ngets = 0 /\ sync = << >>

BootIdle == ports = << >> /\ walk = << >>

H1Idle == writer = << >> /\ chunk = << >> /\ reader = << >>

InitAuth ==
    /\ authIn \in {<<c, p>> : c \in AuthConfigs, p \in AuthPaths} /\ authOut = << >>
    /\ ServerIdle(<< >>, << >>)
    /\ WorkerIdle
    /\ PutIdle
    /\ CacheIdle
    /\ BootIdle
    /\ H1Idle

VerifyAuth ==
    /\ authIn # << >>
    /\ authOut = << >>
    /\ \E h \in AuthHeaders :
         authOut' = [policy |-> EffectiveAuth(authIn[1].global, authIn[1].paths, authIn[2]),
                     header |-> h,
                     pass |-> AuthGatePasses(authIn[1].global, authIn[1].paths, authIn[2], h)]
    /\ UNCHANGED <<authIn, serverVars, workerVars, putVars, cacheVars, bootVars, h1Vars>>

NextAuth == VerifyAuth

SpecAuth == InitAuth /\ [][NextAuth]_vars

\* C2 (Auth longest prefix).  Key k is a prefix of the raw request path on
\* '/' boundaries: the path is "/" k, followed by nothing or by a '/'.
IsSegmentPrefix(k, path) ==
    /\ Len(k) + 1 <= Len(path)
    /\ SubSeq(path, 1, Len(k) + 1) = <<"/">> \o k
    /\ (Len(path) = Len(k) + 1 \/ path[Len(k) + 2] = "/")

MatchingKeys(paths, path) == {k \in DOMAIN paths : IsSegmentPrefix(k, path)}

LongestKey(ks) == CHOOSE k \in ks : \A j \in ks : Len(j) <= Len(k)

\* C2: for every request path the policy the Auth Gate checks the request
\* against is the policy of the longest per-path key that is a prefix of the
\* request path on '/' segment boundaries, and the global policy exactly when
\* no per-path key is such a prefix.
C2_AuthLongestPrefix ==
    authOut # << >> =>
        LET cfg == authIn[1]
            matching == MatchingKeys(cfg.paths, authIn[2])
        IN  authOut.policy = IF matching # {} THEN cfg.paths[LongestKey(matching)] ELSE cfg.global

\* C2 witness: policies on a and a/b, a request below /a/b, validated against
\* the a/b credentials.
C2_Witness ==
    /\ authOut # << >>
    /\ DOMAIN authIn[1].paths = {<<"a">>, <<"a", "/", "b">>}
    /\ authIn[2] = <<"/", "a", "/", "b", "/", "a">>
    /\ authOut.policy = KeyCreds(<<"a", "/", "b">>)
    /\ authOut.header = Some(<<"ua_b", Some("pw")>>)
    /\ authOut.pass

(***************************************************************************)
(* Spec: one worker serving requests one after the other through           *)
(* PruneChain::handle, on a small tree with links that leave the root.     *)
(***************************************************************************)

\* Requests handled in one behaviour.
MaxRequests == 2

\* The largest byte position of a Range header.
MaxRangePos == 3

\* Names and paths of the tree.
HostedDirectory == << <<"s">> >>
Outside == << <<"o">> >>
TempDirectory == << <<"t">> >>
WritesTempDir == Append(TempDirectory, <<"w">>)
EncodedTempDir == Append(TempDirectory, <<"e">>)
IndexHtml == <<"i", "n", "d", "e", "x", ".", "h", "t", "m", "l">>

FileNode(data, ino) == [kind |-> "file", data |-> data, ino |-> ino, mtime |-> 0]
DirNode == [kind |-> "dir"]
LinkNode(abs, target) == [kind |-> "link", abs |-> abs, target |-> target]

\* /s/f            a file
\* /s/d/index.html a link to /o/k, outside the root
\* /s/g.htm        a link to /o/k
\* /s/lo           a link to /o
\* /s/li           a relative link to d
\* /o/k            a file outside the root, which no encoding makes smaller
InitialTree ==
    LET s == HostedDirectory
        nodes == {<< << >>, DirNode>>,
                  <<s, DirNode>>,
                  <<Append(s, <<"f">>), FileNode(<<"x", "x", "y">>, 1)>>,
                  <<Append(s, <<"d">>), DirNode>>,
                  <<s \o << <<"d">>, IndexHtml >>, LinkNode(TRUE, Append(Outside, <<"k">>))>>,
                  <<Append(s, <<"g", ".", "h", "t", "m">>), LinkNode(TRUE, Append(Outside, <<"k">>))>>,
                  <<Append(s, <<"l", "o">>), LinkNode(TRUE, Outside)>>,
                  <<Append(s, <<"l", "i">>), LinkNode(FALSE, << <<"d">> >>)>>,
                  <<Outside, DirNode>>,
                  <<Append(Outside, <<"k">>), FileNode(<<"k", "e">>, 2)>>,
                  <<TempDirectory, DirNode>>}
    IN  [q \in {n[1] : n \in nodes} |-> (CHOOSE n \in nodes : n[1] = q)[2]]

\* HttpHandler::new and PruneChain::new on the options.
NewHandler(opts) ==
    [opts |-> opts,
     hosted_directory |-> HostedDirectory,
     follow_symlinks |-> opts.follow_symlinks,
     sandbox_symlinks |-> opts.sandbox_symlinks,
     generate_listings |-> opts.generate_listings,
     check_indices |-> opts.check_indices,
     strip_extensions |-> opts.strip_extensions,
     global_auth_data |-> opts.global_auth_data,
     path_auth_data |-> opts.path_auth_data,
     writes_temp_dir |-> IF opts.allow_writes THEN Some(WritesTempDir) ELSE None,
     encoded_temp_dir |-> IF opts.encode_fs THEN Some(EncodedTempDir) ELSE None,
     encoded_filesystem_limit |-> IF opts.encoded_filesystem_limit = None THEN U64_MAX
                                  ELSE opts.encoded_filesystem_limit[1],
     encoded_generated_limit |-> IF opts.encoded_generated_limit = None THEN U64_MAX
                                 ELSE opts.encoded_generated_limit[1],
     prune_interval |-> prune_interval(opts.encoded_prune)]

SandboxOptions ==
    [follow_symlinks |-> TRUE, sandbox_symlinks |-> TRUE, generate_listings |-> TRUE,
     check_indices |-> TRUE, strip_extensions |-> TRUE, global_auth_data |-> None,
     path_auth_data |-> << >>, allow_writes |-> TRUE, encode_fs |-> TRUE,
     encoded_filesystem_limit |-> Some(4), encoded_generated_limit |-> Some(1),
     encoded_prune |-> Some(5)]

UserCreds == Some(<<"u", Some("pw")>>)

\* The configurations of the server: the sandbox; the sandbox with a policy
\* on d and one on the whole server; symlinks not followed; no sandbox and
\* no writes.
SpecOptions ==
    {SandboxOptions,
     [SandboxOptions EXCEPT !.path_auth_data = [k \in {<<"d">>} |-> UserCreds],
                            !.global_auth_data = Some(<<"g", None>>)],
     [SandboxOptions EXCEPT !.follow_symlinks = FALSE, !.check_indices = FALSE],
     [SandboxOptions EXCEPT !.sandbox_symlinks = FALSE, !.allow_writes = FALSE, !.generate_listings = FALSE]}

\* The URL paths requested.
SpecUrls ==
    {<<"/">>, <<"/", "f">>, <<"/", "d">>, <<"/", "d", "/">>, <<"/", "l", "o", "/", "k">>,
     <<"/", "l", "i", "/">>, <<"/", "n">>, <<"/", "f", "/", "n">>, <<"/", "l", "o", "/", "n">>,
     <<"/", "%FF">>, <<"/", ".", ".", "%2F", "o", "%2F", "k">>, <<"/", "g">>}

NewRequest(method, path) ==
    [method |-> method, path |-> path, authorization |-> None, range |-> None,
     if_none_match |-> None, if_modified_since |-> None, accept_encoding |-> None,
     content_range |-> FALSE, raw_fs |-> FALSE, body |-> << >>]

Gzip == Some(<< <<"gzip", 1>> >>)

SpecRanges ==
    UNION {{<<"FromTo", a, b>> : b \in a..MaxRangePos} : a \in 0..MaxRangePos}
    \cup {<<"AllFrom", a>> : a \in {0, MaxRangePos, MaxRangePos + 1}}
    \cup {<<"Last", a>> : a \in {0, MaxRangePos, MaxRangePos + 1}}
    \cup {<<"Multi">>}

\* The requests a client sends that do not depend on an earlier response.
FreshRequests ==
    LET file == <<"/", "f">> IN
    {NewRequest(m, u) : m \in {"GET", "DELETE"}, u \in SpecUrls}
    \cup {[NewRequest("PUT", u) EXCEPT !.body = <<"p", "p">>] : u \in SpecUrls}
    \cup {[NewRequest("PUT", file) EXCEPT !.body = << >>],
          [NewRequest("PUT", file) EXCEPT !.content_range = TRUE]}
    \cup {[NewRequest("GET", u) EXCEPT !.accept_encoding = Gzip] : u \in {file, <<"/">>, <<"/", "n">>, <<"/", "d", "/">>}}
    \cup {[NewRequest("GET", file) EXCEPT !.range = Some(ra)] : ra \in SpecRanges}
    \cup {[NewRequest("GET", file) EXCEPT !.if_none_match = Some(inm)] :
             inm \in {<<"any">>, <<"items", {<<"file", 0, 0>>}>>}}
    \cup {[NewRequest("GET", file) EXCEPT !.if_modified_since = Some(since)] : since \in {0, 1}}
    \cup {[NewRequest("GET", u) EXCEPT !.raw_fs = TRUE] : u \in {file, <<"/">>}}
    \cup {NewRequest(m, u) : m \in {"HEAD", "OPTIONS", "TRACE", "PATCH"}, u \in {file, <<"/", "d", "/">>}}
    \cup {NewRequest("PROPFIND", file)}
    \cup {[NewRequest("HEAD", <<"/", "d", "/">>) EXCEPT !.accept_encoding = Gzip]}

\* The request before, sent again with If-None-Match: the ETag it returned.
Revalidations ==
    IF resp # << >> /\ resp.req.method \in {"GET", "HEAD"} /\ resp.r.etag # None
    THEN {[resp.req EXCEPT !.if_none_match = Some(<<"items", {resp.r.etag[1]}>>)]}
    ELSE {}

\* What is asked of a server with policies, with each of the Authorization
\* headers: none, the credentials of d, its user with an empty password,
\* the user of the whole server with an empty password.
GateRequests ==
    {NewRequest(m, u) : m \in {"GET", "HEAD", "DELETE", "OPTIONS"}, u \in {<<"/", "f">>, <<"/", "d", "/">>}}
    \cup {[NewRequest("PUT", u) EXCEPT !.body = <<"p", "p">>] : u \in {<<"/", "f">>, <<"/", "d", "/", "n">>}}
    \cup {[NewRequest("GET", u) EXCEPT !.accept_encoding = Gzip] : u \in {<<"/", "f">>, <<"/", "d", "/", "n">>}}

GateAuthorizations == {None, UserCreds, Some(<<"u", Some("")>>), Some(<<"g", Some("")>>)}

HasPolicy(h) == h.global_auth_data # None \/ DOMAIN h.path_auth_data # {}

\* What the environment does to a request: the encoder of a response may
\* fail, the body of a PUT may end in an error, and the copy of the staged
\* body to the target may fail.
Faults(req) ==
    IF req.accept_encoding # None THEN {NoFault, [NoFault EXCEPT !.encode_ok = FALSE]}
    ELSE IF req.method = "PUT" /\ req.path \in {<<"/", "f">>, <<"/", "n">>}
    THEN {NoFault, [NoFault EXCEPT !.body_ok = FALSE], [NoFault EXCEPT !.copy_ok = FALSE]}
    ELSE {NoFault}

\* The requests that may come next, without their Authorization header.
ClientRequests == (IF HasPolicy(handler) THEN GateRequests ELSE FreshRequests) \cup Revalidations

World ==
    [fs |-> disk, cache_fs |-> cache_fs, cache_fs_files |-> cache_fs_files, cache_fs_size |-> cache_fs_size,
     cache_gen |-> cache_gen, cache_gen_size |-> cache_gen_size, t |-> now]

SetWorld(w) ==
    /\ disk' = w.fs
    /\ cache_fs' = w.cache_fs
    /\ cache_fs_files' = w.cache_fs_files
    /\ cache_fs_size' = w.cache_fs_size
    /\ cache_gen' = w.cache_gen
    /\ cache_gen_size' = w.cache_gen_size

\* The response is sent: the world is as the handler left it.
Respond(req, o, env) ==
    /\ SetWorld(o.w)
    /\ resp' = [req |-> req, r |-> o.r, encode_ok |-> env.encode_ok]

Init ==
    /\ AuthIdle
    /\ \E opts \in SpecOptions : ServerIdle(NewHandler(opts), InitialTree)
    /\ WorkerIdle
    /\ PutIdle
    /\ CacheIdle
    /\ BootIdle
    /\ H1Idle

\* HttpHandler::handle for one request, as the first half of
\* PruneChain::handle.
HandleRequest ==
    /\ stage = "handle"
    /\ nreq < MaxRequests
    /\ \E base \in ClientRequests, a \in IF HasPolicy(handler) THEN GateAuthorizations ELSE {None} :
         \E env \in Faults(base) :
            Respond([base EXCEPT !.authorization = a],
                    handle(handler, World, [base EXCEPT !.authorization = a], env), env)
    /\ stage' = "prune"
    /\ nreq' = nreq + 1
    /\ UNCHANGED <<authVars, handler, last_prune, now, putVars, cacheVars, bootVars, h1Vars>>

\* PruneChain::prune, the second half of PruneChain::handle.
Prune ==
    /\ stage = "prune"
    /\ \E o \in prune(handler, World, last_prune) :
         /\ SetWorld(o.w)
         /\ last_prune' = o.last_prune
    /\ stage' = "handle"
    /\ now' = now + 1
    /\ UNCHANGED <<authVars, handler, resp, nreq, putVars, cacheVars, bootVars, h1Vars>>

Next == HandleRequest \/ Prune

Spec == Init /\ [][Next]_vars

\* A step of HandleRequest: one more request has been answered.
Handled == nreq' = nreq + 1

\* The physical paths under the hosted root and under the temporary
\* directory of the server.
InsideRoot(p) == IsPathPrefix(HostedDirectory, p)
InsideTemp(p) == IsPathPrefix(TempDirectory, p)

\* The part of a filesystem that is neither under the root nor under the
\* temporary directory.
OutsidePart(fs) == Restrict(fs, {p \in DOMAIN fs : ~InsideRoot(p) /\ ~InsideTemp(p)})

\* C1 (Path sandbox), as the specification states it: with follow_symlinks
\* and sandbox_symlinks set, a GET, HEAD, PUT or DELETE reads, writes and
\* deletes only paths inside the hosted root (an index file served for a
\* directory included), whatever the URL and the symlinks on its way, and is
\* answered 404 when its path leaves the root: nothing outside the root is
\* opened for the response, and nothing outside the root changes.
C1_PathSandbox ==
    [][(/\ Handled
        /\ handler.follow_symlinks /\ handler.sandbox_symlinks
        /\ resp'.req.method \in {"GET", "HEAD", "PUT", "DELETE"})
       => /\ \A p \in resp'.r.opened : InsideRoot(p) \/ InsideTemp(p)
          /\ OutsidePart(disk') = OutsidePart(disk)]_vars

\* C3: the policy in force for a request path, read off the keys: that of
\* the longest key that is a prefix of the path on '/' boundaries, the
\* global one when there is none.
C3_Policy(h, path) ==
    IF MatchingKeys(h.path_auth_data, path) # {}
    THEN h.path_auth_data[LongestKey(MatchingKeys(h.path_auth_data, path))]
    ELSE h.global_auth_data

\* C3: the request has no Basic Authorization header, or one whose username
\* or password is not the expected one, an empty password sent being no
\* password.
C3_BadCredentials(policy, authorization) ==
    \/ authorization = None
    \/ authorization[1][1] # policy[1][1]
    \/ (IF authorization[1][2] = Some("") THEN None ELSE authorization[1][2]) # policy[1][2]

\* C3 (Auth failure has no side effect): every request whose effective
\* policy is non-empty and whose credentials are missing or wrong is
\* answered 401 with WWW-Authenticate: basic, and the handler leaves the
\* hosted tree, the staging area, both caches and both size counters as
\* they were.
C3_AuthFailureNoSideEffect ==
    [][(/\ Handled
        /\ C3_Policy(handler, resp'.req.path) # None
        /\ C3_BadCredentials(C3_Policy(handler, resp'.req.path), resp'.req.authorization))
       => /\ resp'.r.status = 401
          /\ resp'.r.www_authenticate
          /\ disk' = disk
          /\ cache_fs' = cache_fs /\ cache_fs_files' = cache_fs_files /\ cache_fs_size' = cache_fs_size
          /\ cache_gen' = cache_gen /\ cache_gen_size' = cache_gen_size]_vars

\* C3 witness: a PUT below d with the user of d and an empty password, and
\* a DELETE of f with no credentials, each answered 401; the staging
\* directory was never created and f is still there.
C3_Witness ==
    /\ resp # << >>
    /\ resp.r.status = 401
    /\ \/ /\ resp.req.method = "PUT"
          /\ resp.req.path = <<"/", "d", "/", "n">>
          /\ resp.req.authorization = Some(<<"u", Some("")>>)
       \/ /\ resp.req.method = "DELETE"
          /\ resp.req.path = <<"/", "f">>
          /\ resp.req.authorization = None
    /\ nreq = 1
    /\ WritesTempDir \notin DOMAIN disk
    /\ Append(HostedDirectory, <<"f">>) \in DOMAIN disk

\* C6: the request answered last was a GET with Accept-Encoding and nothing
\* else, answered 200 with the ETag of a file the server encodes (in the
\* size window), and the request answered now is the same GET.
C6_SameGetTwice ==
    /\ Handled
    /\ resp # << >>
    /\ resp'.req = resp.req
    /\ resp.req.method = "GET"
    /\ resp.req.accept_encoding # None
    /\ resp.req.range = None /\ resp.req.if_none_match = None /\ resp.req.if_modified_since = None
    /\ ~resp.req.raw_fs
    /\ resp.r.status = 200
    /\ resp.r.etag # None
    /\ resp.r.etag[1][1] = "file"
    /\ handler.encoded_temp_dir # None
    /\ \E q \in InoPaths(disk, resp.r.etag[1][2]) :
          Len(disk[q].data) > MIN_ENCODING_SIZE /\ Len(disk[q].data) < MAX_ENCODING_SIZE

\* The second response repeats the first, and is made on the hit path: no
\* file is written, no entry added, the counter is as it was.
C6_HitAgain ==
    /\ resp'.r.status = 200
    /\ resp'.r.body = resp.r.body
    /\ resp'.r.content_encoding = resp.r.content_encoding
    /\ disk' = disk
    /\ DOMAIN cache_fs' = DOMAIN cache_fs
    /\ cache_fs_size' = cache_fs_size

C8_ConditionalGetRoundTrip ==
    [][(/\ Handled
        /\ resp # << >>
        /\ resp.req.method = "GET"
        /\ resp.r.status \in {200, 206, 304}
        /\ resp.r.etag # None
        /\ resp.r.etag[1][1] = "file"
        /\ resp'.req = [resp.req EXCEPT !.if_none_match = Some(<<"items", {resp.r.etag[1]}>>)])
       => /\ resp'.r.status = 304
          /\ resp'.r.body = None
          /\ resp'.r.etag = resp.r.etag]_vars

\* C8 witness: the second of two GETs of f with Accept-Encoding: gzip, the
\* first of which has left an entry in the encoding cache, carries the ETag
\* of f in If-None-Match and is answered 304.
C8_Witness ==
    /\ resp # << >>
    /\ nreq = 2
    /\ resp.req.method = "GET"
    /\ resp.req.path = <<"/", "f">>
    /\ resp.req.accept_encoding = Gzip
    /\ resp.req.if_none_match = Some(<<"items", {<<"file", 1, 0>>}>>)
    /\ cache_fs # << >>
    /\ resp.r.status = 304
    /\ resp.r.etag = Some(<<"file", 1, 0>>)

\* C9 (Range round trip): a GET with Range: bytes=a-b and no conditional
\* header, of the file f of size N, with 0 <= a <= b < N, is answered 206
\* with the bytes f[a..=b] as the body and Content-Range: bytes a-b/N.
C9_RangeRoundTrip ==
    [][(/\ Handled
        /\ resp'.req.method = "GET"
        /\ resp'.req.path = <<"/", "f">>
        /\ resp'.req.range # None
        /\ resp'.req.range[1][1] = "FromTo"
        /\ resp'.req.if_none_match = None /\ resp'.req.if_modified_since = None
        /\ Append(HostedDirectory, <<"f">>) \in DOMAIN disk
        /\ disk[Append(HostedDirectory, <<"f">>)].kind = "file"
        /\ resp'.req.range[1][3] < Len(disk[Append(HostedDirectory, <<"f">>)].data))
       => /\ resp'.r.status = 206
          /\ resp'.r.body = Some(SubSeq(disk[Append(HostedDirectory, <<"f">>)].data,
                                        resp'.req.range[1][2] + 1, resp'.req.range[1][3] + 1))
          /\ resp'.r.content_range = Some(<<resp'.req.range[1][2], resp'.req.range[1][3],
                                            Len(disk[Append(HostedDirectory, <<"f">>)].data)>>)]_vars

\* C9 witness: after a PUT of "pp" to f, the byte 1-1 of f: "p", of 2.
C9_Witness ==
    /\ resp # << >>
    /\ nreq = 2
    /\ resp.req.method = "GET"
    /\ resp.req.path = <<"/", "f">>
    /\ resp.req.range = Some(<<"FromTo", 1, 1>>)
    /\ resp.r.status = 206
    /\ resp.r.body = Some(<<"p">>)
    /\ resp.r.content_range = Some(<<1, 1, 2>>)

\* C10 (PUT result), as the specification states it: a PUT is answered 201
\* or 204 only when its body was written to the target: after the request
\* some file of the tree holds the body, and that file was created or
\* written by the request.
C10_PutResult ==
    [][(/\ Handled
        /\ resp'.req.method = "PUT"
        /\ resp'.r.status \in {201, 204})
       => \E p \in DOMAIN disk' :
             /\ disk'[p].kind = "file"
             /\ disk'[p].data = resp'.req.body
             /\ (p \in DOMAIN disk => disk[p] # disk'[p])]_vars

\* C11: the PUT answered now, one that has passed the Auth Gate, and the
\* path its URL resolves to.
C11_Put == Handled /\ resp'.req.method = "PUT" /\ resp'.r.status # 401

C11_Target == parse_requested_path(disk, handler.hosted_directory, resp'.req.path)

\* C11 (PUT rejection): a PUT is answered 403 when writes are disabled, 405
\* when its target is a directory, 400 when a parent on its path is an
\* existing regular file, 400 when it carries Content-Range, and in each of
\* these cases the hosted tree is as before and no staging file, nor the
\* staging directory, was created.
C11_PutRejection ==
    [][C11_Put =>
         /\ handler.writes_temp_dir = None => resp'.r.status = 403 /\ disk' = disk
         /\ (/\ handler.writes_temp_dir # None
             /\ ~C11_Target.url_err
             /\ IsDir(disk, C11_Target.req_p))
            => resp'.r.status = 405 /\ resp'.r.allow /\ disk' = disk
         /\ (/\ handler.writes_temp_dir # None
             /\ ~C11_Target.url_err
             /\ \E i \in 1..(Len(C11_Target.req_p) - 1) : IsFile(disk, SubSeq(C11_Target.req_p, 1, i)))
            => resp'.r.status = 400 /\ disk' = disk
         /\ (/\ handler.writes_temp_dir # None
             /\ resp'.req.content_range
             /\ ~IsDir(disk, C11_Target.req_p))
            => resp'.r.status = 400 /\ disk' = disk]_vars

\* C11 witness: with writes enabled, a PUT of n below the file f, answered
\* 400, or a PUT of f with Content-Range, answered 400, or a PUT of d,
\* answered 405; or a PUT with writes disabled, answered 403; the tree is as
\* it was and there is no staging directory.
C11_Witness ==
    /\ resp # << >>
    /\ nreq = 1
    /\ resp.req.method = "PUT"
    /\ \/ /\ handler.writes_temp_dir # None
          /\ \/ resp.req.path = <<"/", "f", "/", "n">> /\ resp.r.status = 400
             \/ resp.req.path = <<"/", "f">> /\ resp.req.content_range /\ resp.r.status = 400
             \/ resp.req.path = <<"/", "d">> /\ resp.r.status = 405
       \/ handler.writes_temp_dir = None /\ resp.r.status = 403
    /\ disk = InitialTree

\* C12: the files staged under writes/.
C12_Staged(fs) == {p \in DOMAIN fs : IsPathPrefix(WritesTempDir, p) /\ p # WritesTempDir}

\* C12 (PUT staging cleanup): whichever way a PUT leaves the handler once
\* its staging file exists (the body written to the target, the body ending
\* in an error, the copy to the target failing, the target outside the
\* sandbox), the staging file is gone: between requests writes/ holds no
\* staged file.
C12_StagingCleanup == C12_Staged(disk) = {}

\* C12 witness: a PUT of f has created writes/ and has ended in one of the
\* four ways: 204 with the body in f, a panic with f as it was (the body
\* ended in an error), a panic with f emptied (the copy failed), or, for n
\* behind the link lo that leaves the root, 201 with nothing written.
C12_Witness ==
    /\ resp # << >>
    /\ nreq = 1
    /\ resp.req.method = "PUT"
    /\ WritesTempDir \in DOMAIN disk
    /\ C12_Staged(disk) = {}
    /\ \/ /\ resp.req.path = <<"/", "f">>
          /\ \/ resp.r.status = 204 /\ disk[Append(HostedDirectory, <<"f">>)].data = <<"p", "p">>
             \/ resp.r.status = 0 /\ disk[Append(HostedDirectory, <<"f">>)].data = <<"x", "x", "y">>
             \/ resp.r.status = 0 /\ disk[Append(HostedDirectory, <<"f">>)].data = << >>
       \/ /\ resp.req.path = <<"/", "l", "o", "/", "n">>
          /\ handler.sandbox_symlinks
          /\ resp.r.status = 201
          /\ Outside \o << <<"n">> >> \notin DOMAIN disk

\* C13: the DELETE answered now, one that has passed the Auth Gate and whose
\* URL decodes; the path its URL resolves to with no symlink followed; and
\* the directory entry that path names, its last component not followed.
C13_Delete ==
    /\ Handled
    /\ resp'.req.method = "DELETE"
    /\ resp'.r.status # 401
    /\ ~parse_requested_path_custom_symlink(disk, handler.hosted_directory, resp'.req.path, FALSE).url_err

C13_Target == parse_requested_path_custom_symlink(disk, handler.hosted_directory, resp'.req.path, FALSE)

C13_Entry == Walk(disk, << >>, C13_Target.req_p, OsMaxLinks, FALSE)

\* C13: the sandbox is violated: it is on, and the entry addressed, or what
\* it leads to, is not under the hosted root.
C13_Escapes ==
    /\ handler.follow_symlinks /\ handler.sandbox_symlinks
    /\ C13_Entry.ok
    /\ ~InsideRoot(C13_Entry.path) \/ ~InsideRoot(Canonicalize(disk, C13_Target.req_p).path)

\* C13: the request is to be answered 404.
C13_NotFound ==
    \/ ~Exists(disk, C13_Target.req_p)
    \/ (C13_Target.symlink /\ ~handler.follow_symlinks)
    \/ C13_Escapes

\* C13: the filesystem without the entry addressed: a file or a symlink
\* goes alone, a directory goes with everything below it.
C13_Removed ==
    Restrict(disk, {q \in DOMAIN disk :
                       IF disk[C13_Entry.path].kind = "dir" THEN ~IsPathPrefix(C13_Entry.path, q)
                       ELSE q # C13_Entry.path})

\* C13 (DELETE), as the specification states it: a DELETE is answered 403,
\* and removes nothing, when writes are disabled; else 404, and removes
\* nothing, when its path is missing, when a symlink was met and symlinks are
\* not followed, or when the sandbox is violated; else 204, and exactly the
\* file, the symlink (not its target) or the directory tree addressed is
\* removed.
C13_DeleteResult ==
    [][C13_Delete =>
         IF handler.writes_temp_dir = None THEN resp'.r.status = 403 /\ disk' = disk
         ELSE IF C13_NotFound THEN resp'.r.status = 404 /\ disk' = disk
         ELSE resp'.r.status = 204 /\ disk' = C13_Removed]_vars

\* C14: the keys of the rejected entries of the filesystem cache.
C14_Rejected(cache) == {k \in DOMAIN cache : ~cache[k].present}

\* C14: a GET or HEAD with Accept-Encoding and no Range, no condition and no
\* raw-fs header, sent to a server that encodes files.
C14_EncodedGet(req) ==
    /\ req.method \in {"GET", "HEAD"}
    /\ req.accept_encoding # None
    /\ response_encoding(req.accept_encoding) # None
    /\ req.range = None /\ req.if_none_match = None /\ req.if_modified_since = None
    /\ ~req.raw_fs
    /\ handler.encoded_temp_dir # None

\* C14: the cache key the file of ETag `etag` resolves to under the
\* encoding asked for: the hash the sidecar has for the ETag, else the hash
\* of the content.
C14_Keys(etag, req) ==
    {<<HashByEtag(cache_fs_files, etag, disk[q].data).hash, response_encoding(req.accept_encoding)[1]>> :
        q \in {x \in InoPaths(disk, etag[2]) :
                  Len(disk[x].data) > MIN_ENCODING_SIZE /\ Len(disk[x].data) < MAX_ENCODING_SIZE}}

\* C14: the request answered now resolves to a key that has a rejected
\* entry: it is answered with the ETag of a file whose key has one, or it
\* repeats, as a GET or a HEAD, the request before, which was answered with
\* such an ETag.
C14_ResolvesToRejected ==
    /\ Handled
    /\ resp'.r.status # 401
    /\ C14_EncodedGet(resp'.req)
    /\ \/ /\ resp'.r.etag # None
          /\ resp'.r.etag[1][1] = "file"
          /\ C14_Keys(resp'.r.etag[1], resp'.req) \cap C14_Rejected(cache_fs) # {}
       \/ /\ resp # << >>
          /\ resp.r.status = 200
          /\ resp.r.etag # None
          /\ resp.r.etag[1][1] = "file"
          /\ \E m \in {"GET", "HEAD"} : resp'.req = [resp.req EXCEPT !.method = m]
          /\ C14_Keys(resp.r.etag[1], resp.req) \cap C14_Rejected(cache_fs) # {}

\* C14: what is under encoded/.
C14_EncodedDir(fs) == Restrict(fs, {p \in DOMAIN fs : IsPathPrefix(EncodedTempDir, p)})

C15_Handled == {"OPTIONS", "GET", "PUT", "DELETE", "HEAD", "TRACE"}

\* C15 (Unsupported method), as the specification states it: a request with
\* an unknown method, or with a WebDAV method while WebDAV is disabled, is
\* answered 501 with an Allow header, and no hosted file is changed.
C15_UnsupportedMethod ==
    [][(/\ Handled
        /\ resp'.req.method \notin C15_Handled
        /\ resp'.r.status # 401)
       => /\ resp'.r.status = 501
          /\ resp'.r.allow
          /\ disk' = disk]_vars

\* C16: the names a response lists, when its body is a directory listing:
\* the HTML page, as it is or encoded, or the JSON of the raw-fs API.
C16_Page(body) == IF body[1] = "enc" THEN body[3] ELSE body

C16_IsListing(r) ==
    /\ r.status = 200
    /\ r.body # None
    /\ r.body[1] # << >>
    /\ \/ C16_Page(r.body[1])[1] = "html" /\ C16_Page(r.body[1])[2] = "listing"
       \/ r.body[1][1] = "json" /\ ~r.body[1][2]

C16_Names(r) == IF r.body[1][1] = "json" THEN r.body[1][3] ELSE C16_Page(r.body[1])[4]

\* C16: the entry is a symlink that leads out of the hosted root.
C16_Escapes(fs, fp) ==
    /\ is_symlink(fs, fp)
    /\ ~(Canonicalize(fs, fp).ok /\ InsideRoot(Canonicalize(fs, fp).path))

\* C16 (Directory listing sandbox filter), as the specification states it:
\* with follow_symlinks and sandbox_symlinks set a directory listing, in
\* HTML or as raw-fs JSON, has no entry that is a symlink whose target is
\* outside the hosted root, and with follow_symlinks off it has no symlink.
C16_ListingFilter ==
    [][(Handled /\ resp'.req.method = "GET" /\ C16_IsListing(resp'.r))
       => \A dir \in resp'.r.opened : \A name \in C16_Names(resp'.r) :
             /\ (handler.follow_symlinks /\ handler.sandbox_symlinks)
                   => ~C16_Escapes(disk, Append(dir, name))
             /\ ~handler.follow_symlinks => ~is_symlink(disk, Append(dir, name))]_vars

(***************************************************************************)
(* SpecPut: two workers in handle_put for the same target at the same      *)
(* time, and a reader of the target.  Nothing in HttpHandler serializes    *)
(* them: a step is one call on the filesystem, a copy moves one block (a   *)
(* byte here) at a time, and an open file is its inode, which stays        *)
(* readable and writable after its name is removed.                        *)
(***************************************************************************)

PutWorkers == {"A", "B"}

PutBody(wk) == IF wk = "A" THEN <<"a", "a">> ELSE <<"b">>

\* The targets: the file f, and n, which does not exist.
PutTargets == {<<"/", "f">>, <<"/", "n">>}

\* The inode a path names, 0 when it names no file.
InoAt(fs, p) == IF IsFile(fs, p) THEN Metadata(fs, p).ino ELSE 0

\* The bytes of an open file.
InoData(fs, orph, ino) ==
    IF InoPaths(fs, ino) # {} THEN fs[CHOOSE q \in InoPaths(fs, ino) : TRUE].data ELSE orph[ino]

\* write(2) of one byte at an offset: a write past the end leaves a hole of
\* zeros.
PutAt(data, off, byte) ==
    IF off < Len(data) THEN [data EXCEPT ![off + 1] = byte]
    ELSE data \o [i \in 1..(off - Len(data)) |-> "0"] \o <<byte>>

\* The filesystem and the unlinked files after a write to an open file.
WriteIno(fs, orph, ino, off, byte) ==
    IF InoPaths(fs, ino) # {}
    THEN [fs |-> [fs EXCEPT ![CHOOSE q \in InoPaths(fs, ino) : TRUE] = [@ EXCEPT !.data = PutAt(@, off, byte)]],
          orph |-> orph]
    ELSE [fs |-> fs, orph |-> [orph EXCEPT ![ino] = PutAt(@, off, byte)]]

\* open(O_CREAT | O_TRUNC): the file is emptied when it exists; a new file
\* gets an inode that no open file has.
OpenTruncate(fs, orph, p, t) ==
    With(WriteFile(fs, p, << >>, t), LAMBDA made :
        IF ~made.ok THEN made
        ELSE IF InoAt(made.fs, p) \in DOMAIN orph
        THEN FsOk([made.fs EXCEPT ![Physical(made.fs, p)] = [@ EXCEPT !.ino = Max(Inodes(fs) \cup DOMAIN orph) + 1]])
        ELSE made)

\* The inodes the workers hold open.
HeldInodes(ps) == UNION {{ps[wk].file, ps[wk].src, ps[wk].dst} : wk \in DOMAIN ps} \ {0}

\* unlink(2): the name goes, the bytes stay for those who have the file
\* open.
Unlinked(fs, orph, p) ==
    IF IsFile(fs, p)
    THEN [n \in DOMAIN orph \cup {InoAt(fs, p)} |-> IF n = InoAt(fs, p) THEN Metadata(fs, p).data ELSE orph[n]]
    ELSE orph

\* A worker has made a step: the unlinked files nobody holds any more are
\* gone.
PutStep(wk, fs, orph, me) ==
    /\ puts' = [puts EXCEPT ![wk] = me]
    /\ disk' = fs
    /\ orphans' = Restrict(orph, DOMAIN orph \cap HeldInodes(puts'))
    /\ UNCHANGED <<authVars, handler, cache_fs, cache_fs_files, cache_fs_size, cache_gen, cache_gen_size,
                   last_prune, now, workerVars, observed, cacheVars, bootVars, h1Vars>>

PutDone(me, status) == [me EXCEPT !.pc = "done", !.status = status, !.file = 0, !.src = 0, !.dst = 0]

NewPut(wk, url) ==
    [pc |-> "start", req |-> [NewRequest("PUT", url) EXCEPT !.body = PutBody(wk)], req_p |-> << >>,
     temp_file_p |-> << >>, existent |-> FALSE, file |-> 0, src |-> 0, dst |-> 0, off |-> 0, status |-> 0]

InitPut ==
    /\ AuthIdle
    /\ ServerIdle(NewHandler(SandboxOptions), InitialTree)
    /\ WorkerIdle
    /\ \E url \in PutTargets : puts = [wk \in PutWorkers |-> NewPut(wk, url)]
    /\ orphans = << >>
    /\ observed = << >>
    /\ CacheIdle
    /\ BootIdle
    /\ H1Idle

\* handle_put and handle_put_file down to `existent`: a request that is
\* refused, or that is not to be written, is answered as by one worker
\* alone.
PutStart(wk) ==
    /\ puts[wk].pc = "start"
    /\ Bind(parse_requested_path(disk, handler.hosted_directory, puts[wk].req.path), LAMBDA parsed :
          IF \/ PutRefusal(disk, puts[wk].req, parsed) # None
             \/ PutIllegal(handler, disk, parsed.req_p, parsed.symlink)
             \/ file_name(parsed.req_p) = None
          THEN Bind(handle_put(handler, World, puts[wk].req, NoFault), LAMBDA o :
                    PutStep(wk, o.w.fs, orphans, PutDone(puts[wk], o.r.status)))
          ELSE PutStep(wk, create_temp_dir(disk, handler.writes_temp_dir), orphans,
                       [puts[wk] EXCEPT !.pc = "create",
                                        !.req_p = parsed.req_p,
                                        !.existent = Exists(disk, parsed.req_p),
                                        !.temp_file_p = Append(handler.writes_temp_dir[1], file_name(parsed.req_p)[1])]))

\* File::create(&temp_file_p)
PutCreate(wk) ==
    /\ puts[wk].pc = "create"
    /\ Bind(OpenTruncate(disk, orphans, puts[wk].temp_file_p, now), LAMBDA made :
          IF ~made.ok THEN PutStep(wk, disk, orphans, PutDone(puts[wk], 0))
          ELSE PutStep(wk, made.fs, orphans,
                       [puts[wk] EXCEPT !.pc = "write", !.file = InoAt(made.fs, puts[wk].temp_file_p), !.off = 0]))

\* io::copy(&mut req.body, &mut file): one block more, or the end of the
\* body, where the file is closed.
PutWrite(wk) ==
    /\ puts[wk].pc = "write"
    /\ IF puts[wk].off < Len(puts[wk].req.body)
       THEN Bind(WriteIno(disk, orphans, puts[wk].file, puts[wk].off, puts[wk].req.body[puts[wk].off + 1]),
                 LAMBDA n : PutStep(wk, n.fs, n.orph, [puts[wk] EXCEPT !.off = @ + 1]))
       ELSE PutStep(wk, disk, orphans, [puts[wk] EXCEPT !.pc = "copy_open", !.file = 0])

\* create_dir_all of the parent, and fs::copy as far as both files are
\* open: the staged file for reading, the target created or emptied.  When
\* either fails, `catch` removes the staged file and the worker panics.
PutCopyOpen(wk) ==
    /\ puts[wk].pc = "copy_open"
    /\ Bind(CreateDirAll(disk, Parent(puts[wk].req_p)), LAMBDA made :
       Bind(OpenTruncate(made, orphans, puts[wk].req_p, now), LAMBDA opened :
          IF ~IsFile(made, puts[wk].temp_file_p)
          THEN PutStep(wk, made, orphans, PutDone(puts[wk], 0))
          ELSE IF ~opened.ok
          THEN PutStep(wk, Finally(made, puts[wk].temp_file_p), Unlinked(made, orphans, puts[wk].temp_file_p),
                       PutDone(puts[wk], 0))
          ELSE PutStep(wk, opened.fs, orphans,
                       [puts[wk] EXCEPT !.pc = "copy",
                                        !.src = InoAt(made, puts[wk].temp_file_p),
                                        !.dst = InoAt(opened.fs, puts[wk].req_p),
                                        !.off = 0])))

\* fs::copy: one block more, or the end of the staged file, where both
\* files are closed.
PutCopy(wk) ==
    /\ puts[wk].pc = "copy"
    /\ Bind(InoData(disk, orphans, puts[wk].src), LAMBDA staged :
          IF puts[wk].off < Len(staged)
          THEN Bind(WriteIno(disk, orphans, puts[wk].dst, puts[wk].off, staged[puts[wk].off + 1]),
                    LAMBDA n : PutStep(wk, n.fs, n.orph, [puts[wk] EXCEPT !.off = @ + 1]))
          ELSE PutStep(wk, disk, orphans, [puts[wk] EXCEPT !.pc = "finally", !.src = 0, !.dst = 0]))

\* finally() and the response: 201 when the target did not exist, else 204.
PutFinally(wk) ==
    /\ puts[wk].pc = "finally"
    /\ PutStep(wk, Finally(disk, puts[wk].temp_file_p), Unlinked(disk, orphans, puts[wk].temp_file_p),
               PutDone(puts[wk], IF ~puts[wk].existent THEN 201 ELSE 204))

\* Someone reads the target while the workers are at it.
ReadTarget ==
    /\ observed = << >>
    /\ puts # << >>
    /\ \E wk \in DOMAIN puts : puts[wk].pc # "done"
    /\ observed' = Some(ReadFile(disk, HostedDirectory \o Components(Tail(puts["A"].req.path))))
    /\ UNCHANGED <<authVars, serverVars, workerVars, puts, orphans, cacheVars, bootVars, h1Vars>>

NextPut ==
    \/ \E wk \in PutWorkers :
          \/ PutStart(wk)
          \/ PutCreate(wk)
          \/ PutWrite(wk)
          \/ PutCopyOpen(wk)
          \/ PutCopy(wk)
          \/ PutFinally(wk)
    \/ ReadTarget

SpecPut == InitPut /\ [][NextPut]_vars

\* The content of the target of the workers of SpecPut.
PutTargetContent == ReadFile(disk, HostedDirectory \o Components(Tail(puts["A"].req.path)))

\* C7 (PUT atomicity), as the specification states it: when the concurrent
\* PUTs to one target are over, the target holds one of the submitted
\* bodies in full, and a reader never finds at the target anything but what
\* was there before or one of the bodies in full.
C7_PutAtomicity ==
    puts # << >> =>
        /\ (\A wk \in PutWorkers : puts[wk].pc = "done")
              => PutTargetContent \in {Some(PutBody(wk)) : wk \in PutWorkers}
        /\ observed # << >>
              => observed[1] \in {Some(PutBody(wk)) : wk \in PutWorkers}
                                 \cup {ReadFile(InitialTree, HostedDirectory \o Components(Tail(puts["A"].req.path)))}

(***************************************************************************)
(* SpecCache: two workers in PruneChain::handle at the same time, asking   *)
(* for files and generated pages with Accept-Encoding: gzip.  The locks of *)
(* the cache maps are held over the lookup and over the insertion, not in  *)
(* between: a request for a file is a step up to the lookup, a step for    *)
(* the encoding and the insertion after a miss, and a step for prune().    *)
(***************************************************************************)

CacheWorkers == {"A", "B"}

\* Requests taken in one behaviour, by both workers together.
MaxGets == 4

\* The tree with a second file, h, and the options: room for one encoded
\* file and a half, and for one encoded page.
CacheTree == WriteFile(InitialTree, Append(HostedDirectory, <<"h">>), <<"z", "z", "w">>, 0).fs

CacheOptions == [SandboxOptions EXCEPT !.encoded_filesystem_limit = Some(3)]

\* The files asked for, and the paths that are not there.
CacheFileUrls == {<<"/", "f">>, <<"/", "h">>}
CachePageUrls == {<<"/", "n">>, <<"/", "m">>}

CacheRequest(url) == [NewRequest("GET", url) EXCEPT !.accept_encoding = Gzip]

CacheEnv == NoFault

NoMiss == [req_p |-> << >>, etag |-> << >>, cache_key |-> << >>, resp_p |-> << >>]

InitCache ==
    /\ AuthIdle
    /\ ServerIdle(NewHandler(CacheOptions), CacheTree)
    /\ WorkerIdle
    /\ PutIdle
    /\ gets = [wk \in CacheWorkers |-> [pc |-> "idle", miss |-> NoMiss]]
    /\ ngets = 0
    /\ sync = << >>
    /\ BootIdle
    /\ H1Idle

\* What a worker has in hand in handle_get_file_encoded when it looks the
\* cache key up, ops/mod.rs 651-667.
MissOf(h, w, req_p) ==
    With(HashByEtag(w.cache_fs_files, file_etag(Metadata(w.fs, req_p)), Metadata(w.fs, req_p).data), LAMBDA hashed :
        [req_p |-> req_p,
         etag |-> file_etag(Metadata(w.fs, req_p)),
         files |-> hashed.files,
         cache_key |-> <<hashed.hash, "gzip">>,
         resp_p |-> EncodedPath(h, hashed.hash, req_p, "gzip")])

CacheStep(wk, w, pc, miss) ==
    /\ SetWorld(w)
    /\ gets' = [gets EXCEPT ![wk] = [pc |-> pc, miss |-> miss]]
    /\ UNCHANGED <<authVars, handler, workerVars, putVars, sync, bootVars, h1Vars>>

\* A request for a file, down to the lookup of its cache key: on a hit and
\* on a rejected entry the response is made, on a miss the locks are let go.
CacheLookup(wk) ==
    /\ gets[wk].pc = "idle"
    /\ ngets < MaxGets
    /\ \E url \in CacheFileUrls :
         Bind(MissOf(handler, World, parse_requested_path(disk, handler.hosted_directory, url).req_p), LAMBDA miss :
         Bind([World EXCEPT !.fs = create_temp_dir(@, handler.encoded_temp_dir), !.cache_fs_files = miss.files],
              LAMBDA w :
            IF miss.cache_key \in DOMAIN cache_fs
            THEN CacheStep(wk, EncodedLookup(handler, w, miss.req_p, miss.etag, miss.cache_key,
                                             Metadata(disk, miss.req_p).data, miss.resp_p, CacheEnv).w,
                           "prune", NoMiss)
            ELSE CacheStep(wk, w, "encode", [x \in DOMAIN NoMiss |-> miss[x]])))
    /\ ngets' = ngets + 1
    /\ now' = now + 1
    /\ UNCHANGED last_prune

\* encode_file and the insertion of the entry, after a miss.
CacheEncode(wk) ==
    /\ gets[wk].pc = "encode"
    /\ CacheStep(wk, EncodedMiss(handler, World, gets[wk].miss.req_p, gets[wk].miss.etag, gets[wk].miss.cache_key,
                                 Metadata(disk, gets[wk].miss.req_p).data, gets[wk].miss.resp_p, CacheEnv).w,
                 "prune", NoMiss)
    /\ now' = now + 1
    /\ UNCHANGED <<last_prune, ngets>>

\* A request for a path that is not there: the page of the 404, encoded.
CachePage(wk) ==
    /\ gets[wk].pc = "idle"
    /\ ngets < MaxGets
    /\ \E url \in CachePageUrls :
         CacheStep(wk, handle(handler, World, CacheRequest(url), CacheEnv).w, "prune", NoMiss)
    /\ ngets' = ngets + 1
    /\ now' = now + 1
    /\ UNCHANGED last_prune

\* prune(), after the response was made.
CachePrune(wk) ==
    /\ gets[wk].pc = "prune"
    /\ \E o \in prune(handler, World, last_prune) :
         /\ CacheStep(wk, o.w, "idle", NoMiss)
         /\ last_prune' = o.last_prune
    /\ UNCHANGED <<now, ngets>>

NextCache ==
    \E wk \in CacheWorkers :
       \/ CacheLookup(wk)
       \/ CacheEncode(wk)
       \/ CachePage(wk)
       \/ CachePrune(wk)

SpecCache == InitCache /\ [][NextCache]_vars

\* C4 (Size cap), as the specification states it: once a prune() has
\* completed and no request is in flight, cache_fs_size is at most
\* encoded_filesystem_limit and cache_gen_size at most
\* encoded_generated_limit.
C4_SizeCap ==
    (gets # << >> /\ ngets > 0 /\ \A wk \in CacheWorkers : gets[wk].pc = "idle")
       => /\ cache_fs_size <= handler.opts.encoded_filesystem_limit[1]
          /\ cache_gen_size <= handler.opts.encoded_generated_limit[1]

\* The entries a step removes from a cache are not younger than those it
\* leaves.
OldestGo(before, after) ==
    \A gone \in DOMAIN before \ DOMAIN after, kept \in DOMAIN after \cap DOMAIN before :
       before[gone].atime <= before[kept].atime

\* C5 (LRU by atime): whenever prune() evicts from a cache, the entries it
\* removes have the smallest atimes of the entries the cache holds: no
\* entry is evicted while an entry with a smaller atime, one hit less
\* recently, stays.
C5_LruByAtime ==
    [][gets # << >> => OldestGo(cache_fs, cache_fs') /\ OldestGo(cache_gen, cache_gen')]_vars

\* C5 witness: the encoded f and the encoded h were in the cache, f from
\* before h, 4 bytes for a limit of 3; prune() has removed f, entry and
\* file, and h stays.
C5_Witness ==
    /\ gets # << >>
    /\ \A wk \in CacheWorkers : gets[wk].pc = "idle"
    /\ ngets = 2
    /\ DOMAIN cache_fs = {<<file_hash(<<"z", "z", "w">>), "gzip">>}
    /\ cache_fs_size = 2
    /\ EncodedPath(handler, file_hash(<<"z", "z", "w">>), <<<<"h">>>>, "gzip") \in DOMAIN disk
    /\ EncodedPath(handler, file_hash(<<"x", "x", "y">>), <<<<"f">>>>, "gzip") \notin DOMAIN disk
    /\ EncodedTempDir \in DOMAIN disk

(***************************************************************************)
(* SpecPorts: the start of the server, try_ports (ops/mod.rs 1549-1584).   *)
(* The ports are 16 bits wide; the text of the error of a bind is what the *)
(* operating system says.                                                  *)
(***************************************************************************)

U16_MAX == 65535

\* The ranges are taken among the last MaxPorts ports.
MaxPorts == 3

Ports == (U16_MAX - MaxPorts + 1)..U16_MAX

\* str::contains.
Contains(s, t) == \E i \in 1..(Len(s) - Len(t) + 1) : SubSeq(s, i, i + Len(t) - 1) = t

\* What a bind of a port gives: the listener, or the error of the operating
\* system, by its text: EADDRINUSE as Linux and as Windows word it, EACCES,
\* EADDRNOTAVAIL, EAFNOSUPPORT.
Bound == ""
AddrInUse == "Address already in use (os error 98)"
AddrInUseWindows ==
    "Only one usage of each socket address (protocol/network address/port) is normally permitted. (os error 10048)"
PermissionDenied == "Permission denied (os error 13)"
AddrNotAvailable == "Cannot assign requested address (os error 99)"
AfNoSupport == "Address family not supported by protocol (os error 97)"

InUseErrors == {AddrInUse, AddrInUseWindows}

BindOutcomes == {Bound} \cup InUseErrors \cup {PermissionDenied, AddrNotAvailable, AfNoSupport}

\* tls_data: none, an identity that loads, one that does not.
TlsData == {"none", "loads", "fails"}

PortsError(desc, op, more) == [ok |-> FALSE, port |-> 0, desc |-> desc, op |-> op, more |-> more]
PortsOk(port) == [ok |-> TRUE, port |-> port, desc |-> "", op |-> "", more |-> ""]

\* The test of the Err arm, 1567: the errors after which the loop goes on.
KeepsTrying(error_s) == Contains(error_s, "port") \/ Contains(error_s, "in use")

KeepsTryingMutant(error_s) == Contains(error_s, "in use")

\* `up_to + 1` in u16, 1551: with overflow checks the addition of 1 to
\* 65535 panics, without them it wraps to 0.
RangeEnd(up_to, overflow_checks) ==
    IF up_to + 1 > U16_MAX
    THEN IF overflow_checks THEN << >> ELSE <<(up_to + 1) % (U16_MAX + 1)>>
    ELSE <<up_to + 1>>

InitPorts ==
    /\ AuthIdle
    /\ ServerIdle(<< >>, << >>)
    /\ WorkerIdle
    /\ PutIdle
    /\ CacheIdle
    /\ H1Idle
    /\ walk = << >>
    /\ \E from \in Ports, up_to \in Ports, tls_data \in TlsData, overflow_checks \in BOOLEAN :
         /\ from <= up_to
         /\ \E bind \in [Ports -> BindOutcomes] :
              ports = [from |-> from, up_to |-> up_to, tls_data |-> tls_data, bind |-> bind,
                       overflow_checks |-> overflow_checks,
                       pc |-> "call", port |-> from, end |-> 0, tried |-> << >>, result |-> << >>]

PortsStep(p) ==
    /\ ports' = p
    /\ UNCHANGED <<authVars, serverVars, workerVars, putVars, cacheVars, walk, h1Vars>>

\* The range of the loop is made, 1551.
PortsRange ==
    /\ ports.pc = "call"
    /\ Bind(RangeEnd(ports.up_to, ports.overflow_checks), LAMBDA end :
         IF end = << >>
         THEN PortsStep([ports EXCEPT !.pc = "panic"])
         ELSE PortsStep([ports EXCEPT !.pc = "loop", !.end = end[1]]))

\* One turn of the loop, 1551-1575: the identity is loaded, the port is
\* bound.
PortsTry ==
    /\ ports.pc = "loop"
    /\ ports.port < ports.end
    /\ IF ports.tls_data = "fails"
       THEN PortsStep([ports EXCEPT !.pc = "done",
                                    !.result = <<PortsError("TLS certificate", "open", "")>>])
       ELSE Bind(ports.bind[ports.port], LAMBDA error_s :
              Bind([ports EXCEPT !.tried = Append(@, ports.port)], LAMBDA p :
                IF error_s = Bound
                THEN PortsStep([p EXCEPT !.pc = "done", !.result = <<PortsOk(ports.port)>>])
                ELSE IF ~KeepsTrying(error_s)
                THEN PortsStep([p EXCEPT !.pc = "done", !.result = <<PortsError("server", "start", error_s)>>])
                ELSE PortsStep([p EXCEPT !.port = @ + 1])))

\* The range is at its end, 1578-1582.
PortsExhausted ==
    /\ ports.pc = "loop"
    /\ ports.port >= ports.end
    /\ PortsStep([ports EXCEPT !.pc = "done", !.result = <<PortsError("server", "start", "no free ports")>>])

NextPorts == PortsRange \/ PortsTry \/ PortsExhausted

SpecPorts == InitPorts /\ [][NextPorts]_vars

\* The ports of the range before the first one whose bind does not say
\* "in use", and that one.
C17_Expected(from, up_to, bind) ==
    LET others == {q \in from..up_to : bind[q] \notin InUseErrors}
    IN  IF others = {} THEN [tried |-> [i \in 1..(up_to - from + 1) |-> from + i - 1],
                             result |-> PortsError("server", "start", "no free ports")]
        ELSE [tried |-> [i \in 1..(Min(others) - from + 1) |-> from + i - 1],
              result |-> IF bind[Min(others)] = Bound THEN PortsOk(Min(others))
                         ELSE PortsError("server", "start", bind[Min(others)])]

\* C17 (Port selection): try_ports comes back for every range with
\* from <= up_to <= 65535; it has tried the ports from, from+1, ... in
\* increasing order up to the first one whose bind did not fail with "in
\* use"; it returns that port's listener or that port's error, and "no free
\* ports" when every port of the range is in use. (The identity of the TLS
\* server is taken to load.)
C17_PortSelection ==
    (ports # << >> /\ ports.tls_data # "fails")
       => /\ ports.pc # "panic"
          /\ ports.pc = "done"
               => /\ ports.tried = C17_Expected(ports.from, ports.up_to, ports.bind).tried
                  /\ ports.result = <<C17_Expected(ports.from, ports.up_to, ports.bind).result>>

(***************************************************************************)
(* SpecWriter: HttpWriter over a stream, hyper http/h1.rs 312-331.  The    *)
(* stream takes the bytes of a write_all or fails after having taken some  *)
(* of them.                                                                *)
(***************************************************************************)

\* The longest Content-Length, the longest message of one write call, the
\* number of write calls.
MaxLength == 3
MaxMsgLen == 3
MaxWrites == 3

WriterBytes == {"a", "b"}

Messages == UNION {[1..n -> WriterBytes] : n \in 0..MaxMsgLen}

IoOk(n) == [ok |-> TRUE, n |-> n, kind |-> "", desc |-> ""]
IoErr(kind, desc) == [ok |-> FALSE, n |-> 0, kind |-> kind, desc |-> desc]

\* Write::write_all of the stream on a slice: all of it is taken, or the
\* stream fails after it took `taken` bytes, fewer than the slice (nothing
\* is asked of the stream for an empty slice).
WriteAllOutcomes(slice) == {[ok |-> TRUE, taken |-> Len(slice)]}
                               \cup {[ok |-> FALSE, taken |-> j] : j \in 0..(Len(slice) - 1)}

\* Write::write of the stream on a message: some of it is taken, at least
\* one byte unless it is empty, or the stream fails.
WriteOutcomes(msg) == {[ok |-> TRUE, taken |-> j] : j \in (IF Len(msg) = 0 THEN 0 ELSE 1)..Len(msg)}
                          \cup {[ok |-> FALSE, taken |-> 0]}

\* The slice of the message a SizedWriter hands to write_all, 318-326.
SizedSlice(msg, remaining) ==
    IF Len(msg) > remaining THEN SubSeq(msg, 1, remaining) ELSE msg

\* HttpWriter::write, 314-331: the writer after the call, what went to the
\* stream, what the call returned.
HttpWriterWrite(wr, msg, out) ==
    IF wr.kind = "ThroughWriter"
    THEN [wr EXCEPT !.passed = @ + Len(msg), !.taken = @ + out.taken, !.slice = msg, !.msg = msg,
                    !.nwrites = @ + 1,
                    !.ret = <<IF out.ok THEN IoOk(out.taken) ELSE IoErr("Other", "stream")>>]
    ELSE With(SizedSlice(msg, wr.remaining), LAMBDA slice :
           With([wr EXCEPT !.passed = @ + Len(slice), !.taken = @ + out.taken, !.slice = slice, !.msg = msg,
                           !.nwrites = @ + 1],
                LAMBDA w1 :
             IF ~out.ok
             THEN [w1 EXCEPT !.ret = <<IoErr("Other", "stream")>>]
             ELSE IF Len(msg) > wr.remaining
             THEN [w1 EXCEPT !.remaining = 0, !.ret = <<IoOk(wr.remaining)>>]
             ELSE [w1 EXCEPT !.remaining = @ - Len(msg), !.ret = <<IoOk(Len(msg))>>]))

NewWriter(kind, length) ==
    [kind |-> kind, length |-> length, remaining |-> length, passed |-> 0, taken |-> 0,
     slice |-> << >>, msg |-> << >>, before |-> length, nwrites |-> 0, ret |-> << >>]

InitWriter ==
    /\ AuthIdle
    /\ ServerIdle(<< >>, << >>)
    /\ WorkerIdle
    /\ PutIdle
    /\ CacheIdle
    /\ BootIdle
    /\ chunk = << >> /\ reader = << >>
    /\ \E kind \in {"SizedWriter", "ThroughWriter"}, length \in 0..MaxLength :
         /\ kind = "ThroughWriter" => length = 0
         /\ writer = NewWriter(kind, length)

WriterStep(wr) ==
    /\ writer' = wr
    /\ UNCHANGED <<authVars, serverVars, workerVars, putVars, cacheVars, bootVars, chunk, reader>>

\* A write call on a SizedWriter.
SizedWrite ==
    /\ writer.kind = "SizedWriter"
    /\ writer.nwrites < MaxWrites
    /\ \E msg \in Messages :
         \E out \in WriteAllOutcomes(SizedSlice(msg, writer.remaining)) :
            WriterStep(HttpWriterWrite([writer EXCEPT !.before = writer.remaining], msg, out))

\* A write call on a ThroughWriter.
ThroughWrite ==
    /\ writer.kind = "ThroughWriter"
    /\ writer.nwrites < MaxWrites
    /\ \E msg \in Messages :
         \E out \in WriteOutcomes(msg) :
            WriterStep(HttpWriterWrite([writer EXCEPT !.before = writer.remaining], msg, out))

NextWriter == SizedWrite \/ ThroughWrite

SpecWriter == InitWriter /\ [][NextWriter]_vars

\* C18 (SizedWriter bound): for a SizedWriter created with length L, the
\* total number of bytes passed to the underlying writer never exceeds L
\* over any sequence of write calls; a write of a message longer than the
\* remaining budget hands the stream the first `remaining` bytes of the
\* message and nothing else, and returns that count.
C18_SizedWriterBound ==
    (writer # << >> /\ writer.kind = "SizedWriter")
       => /\ writer.passed <= writer.length
          /\ (writer.ret # << >> /\ writer.ret[1].ok /\ Len(writer.msg) > writer.before)
                => /\ writer.slice = SubSeq(writer.msg, 1, writer.before)
                   /\ writer.ret[1].n = writer.before

(***************************************************************************)
(* SpecChunk: read_chunk_size, hyper http/h1.rs 180-247, on the bytes of a *)
(* stream.  A u64 is kept as four limbs of 16 bits, the most significant   *)
(* first.                                                                  *)
(***************************************************************************)

CR == 13
LF == 10
B_TAB == 9
B_SPACE == 32
B_SEMICOLON == 59
B_0 == 48
B_9 == 57
B_A == 65
B_F == 70
B_a == 97
B_f == 102

LimbBase == 65536
U64Zero == <<0, 0, 0, 0>>

\* The multiplication without the check: the product modulo 2^64.
CheckedMulMutant(size, radix) ==
    LET t0 == size[4] * radix
        t1 == size[3] * radix + t0 \div LimbBase
        t2 == size[2] * radix + t1 \div LimbBase
        t3 == size[1] * radix + t2 \div LimbBase
    IN  Some(<<t3 % LimbBase, t2 % LimbBase, t1 % LimbBase, t0 % LimbBase>>)

\* u64::checked_mul by a small factor: None on overflow.
CheckedMul(size, radix) ==
    LET t0 == size[4] * radix
        t1 == size[3] * radix + t0 \div LimbBase
        t2 == size[2] * radix + t1 \div LimbBase
        t3 == size[1] * radix + t2 \div LimbBase
    IN  IF t3 \div LimbBase # 0 THEN None
        ELSE Some(<<t3 % LimbBase, t2 % LimbBase, t1 % LimbBase, t0 % LimbBase>>)

\* `size += d` in u64, for a small d: None where the sum does not fit (a
\* panic with overflow checks, the sum modulo 2^64 without).
U64AddSmall(size, d) ==
    LET t0 == size[4] + d
        t1 == size[3] + t0 \div LimbBase
        t2 == size[2] + t1 \div LimbBase
        t3 == size[1] + t2 \div LimbBase
    IN  IF t3 \div LimbBase # 0 THEN None
        ELSE Some(<<t3 % LimbBase, t2 % LimbBase, t1 % LimbBase, t0 % LimbBase>>)

ChunkOk(size) == [ok |-> TRUE, size |-> size, kind |-> "", desc |-> ""]
ChunkErr(kind, desc) == [ok |-> FALSE, size |-> U64Zero, kind |-> kind, desc |-> desc]

InvalidLine == ChunkErr("InvalidInput", "Invalid chunk size line")

NewChunk(line) ==
    [line |-> line, pos |-> 0, size |-> U64Zero, in_ext |-> FALSE, in_chunk_size |-> TRUE,
     pc |-> "loop", result |-> << >>]

ChunkReturn(c, r) == [c EXCEPT !.pc = "done", !.result = <<r>>]

\* The three digit arms, 201-212: the size so far times 16, plus the digit.
ChunkDigit(c, digit) ==
    With(CheckedMul(c.size, 16), LAMBDA product :
      IF product = None
      THEN ChunkReturn(c, ChunkErr("InvalidInput", "too long"))
      ELSE With(U64AddSmall(product[1], digit), LAMBDA sum :
             IF sum = None THEN [c EXCEPT !.pc = "panic"] ELSE [c EXCEPT !.size = sum[1]]))

\* todo!, 235: the macro of hyper's lib.rs, a line of the trace log; the
\* byte of an extension is passed over.
Todo(c) == c

\* One turn of the loop of read_chunk_size, 198-243, the byte at c.pos + 1
\* being the next of the stream.
ChunkTurn(c) ==
    IF c.pos >= Len(c.line) THEN ChunkReturn(c, InvalidLine)
    ELSE With(c.line[c.pos + 1], LAMBDA b :
      With([c EXCEPT !.pos = @ + 1], LAMBDA c1 :
        IF b \in B_0..B_9 /\ c.in_chunk_size THEN ChunkDigit(c1, b - B_0)
        ELSE IF b \in B_a..B_f /\ c.in_chunk_size THEN ChunkDigit(c1, b + 10 - B_a)
        ELSE IF b \in B_A..B_F /\ c.in_chunk_size THEN ChunkDigit(c1, b + 10 - B_A)
        ELSE IF b = CR
        THEN IF c1.pos >= Len(c.line) THEN ChunkReturn(c1, InvalidLine)
             ELSE IF c.line[c1.pos + 1] = LF
             THEN ChunkReturn([c1 EXCEPT !.pos = @ + 1], ChunkOk(c.size))
             ELSE ChunkReturn([c1 EXCEPT !.pos = @ + 1], InvalidLine)
        ELSE IF b = B_SEMICOLON /\ ~c.in_ext THEN [c1 EXCEPT !.in_ext = TRUE, !.in_chunk_size = FALSE]
        ELSE IF b \in {B_TAB, B_SPACE} /\ ~c.in_ext /\ ~c.in_chunk_size THEN c1
        ELSE IF b \in {B_TAB, B_SPACE} /\ c.in_chunk_size THEN [c1 EXCEPT !.in_chunk_size = FALSE]
        ELSE IF c.in_ext THEN Todo(c1)
        ELSE ChunkReturn(c1, InvalidLine)))

\* The lines: every short one over a few bytes, and a run of digits, what
\* follows it, and an ending.
MaxLineLen == 3

Repeat(b, n) == [i \in 1..n |-> b]

ShortLineBytes == {49, B_a, 88, B_SPACE, B_SEMICOLON, CR, LF}

DigitRuns == {<< >>, <<B_0>>, <<49>>, <<B_0, 49>>, <<B_a>>, <<B_A>>, <<B_F, B_f>>, <<B_9, 99, 68>>,
              Repeat(B_f, 16), <<B_0>> \o Repeat(B_f, 16), <<49>> \o Repeat(B_0, 15),
              <<49>> \o Repeat(B_0, 16), <<B_f>> \o Repeat(B_0, 15) \o <<51>>,
              Repeat(B_0, 17) \o <<B_F>>}

AfterDigits == {<< >>, <<B_SPACE>>, <<B_TAB, B_SPACE>>, <<B_SEMICOLON>>, <<B_SEMICOLON, 101, 120, 116>>,
                <<B_SPACE, B_SEMICOLON, B_SPACE, 120, 61, 49>>, <<B_SEMICOLON, B_SEMICOLON, B_TAB>>,
                <<B_SPACE, B_A>>, <<88>>, <<45>>, <<B_SEMICOLON, LF, 0, 255>>, <<103>>}

LineEndings == {<<CR, LF>>, <<CR, LF, 122>>, <<CR>>, <<CR, B_F>>, <<CR, CR, LF>>, << >>, <<LF>>}

ChunkLines == UNION {[1..n -> ShortLineBytes] : n \in 0..MaxLineLen}
                 \cup {d \o a \o e : d \in DigitRuns, a \in AfterDigits, e \in LineEndings}

InitChunk ==
    /\ AuthIdle
    /\ ServerIdle(<< >>, << >>)
    /\ WorkerIdle
    /\ PutIdle
    /\ CacheIdle
    /\ BootIdle
    /\ writer = << >> /\ reader = << >>
    /\ \E line \in ChunkLines : chunk = NewChunk(line)

ReadChunkSizeTurn ==
    /\ chunk.pc = "loop"
    /\ chunk' = ChunkTurn(chunk)
    /\ UNCHANGED <<authVars, serverVars, workerVars, putVars, cacheVars, bootVars, writer, reader>>

NextChunk == ReadChunkSizeTurn

SpecChunk == InitChunk /\ [][NextChunk]_vars

C19_IsHex(b) == b \in (B_0..B_9) \cup (B_a..B_f) \cup (B_A..B_F)

C19_DigitValue(b) == IF b \in B_0..B_9 THEN b - 48 ELSE IF b \in B_a..B_f THEN b - 87 ELSE b - 55

\* The number of bytes at the start of s, from position i on, that are in S.
C19_Run(s, i, S) ==
    IF \A j \in i..Len(s) : s[j] \in S THEN Len(s) - i + 1
    ELSE Min({j \in i..Len(s) : s[j] \notin S}) - i

\* The value of a run of hexadecimal digits, in limbs, or None when it does
\* not fit in 64 bits: the digits after the leading zeros, at most 16 of
\* them, four to a limb.
C19_HexValue(digits) ==
    LET sig == SubSeq(digits, C19_Run(digits, 1, {B_0}) + 1, Len(digits))
        padded == Repeat(B_0, 16 - Len(sig)) \o sig
        limb(k) == C19_DigitValue(padded[4 * k - 3]) * 4096 + C19_DigitValue(padded[4 * k - 2]) * 256
                      + C19_DigitValue(padded[4 * k - 1]) * 16 + C19_DigitValue(padded[4 * k])
    IN  IF Len(sig) > 16 THEN None ELSE Some(<<limb(1), limb(2), limb(3), limb(4)>>)

\* A line as the claim has it: digits, spaces and tabs, then either CRLF or
\* ';', bytes other than CR, and CRLF.  The position of its LF, or 0.
C19_LineEnd(line) ==
    LET d == C19_Run(line, 1, {b \in 0..255 : C19_IsHex(b)})
        w == C19_Run(line, d + 1, {B_TAB, B_SPACE})
        p == d + w + 1
        e == IF p <= Len(line) /\ line[p] = B_SEMICOLON THEN 1 + C19_Run(line, p + 1, (0..255) \ {CR}) ELSE 0
        q == p + e
    IN  IF q + 1 <= Len(line) /\ line[q] = CR /\ line[q + 1] = LF THEN q + 1 ELSE 0

C19_Digits(line) == SubSeq(line, 1, C19_Run(line, 1, {b \in 0..255 : C19_IsHex(b)}))

MaxBodyLen == 3
MaxBufLen == 2
MaxReads == 4

EarlyEof == IoErr("Other", "early eof")

\* Read::read of the stream on a buffer of to_read bytes: the stream gives
\* at most env.short bytes at once, or fails.
StreamRead(stream, to_read, env) ==
    IF env.fails THEN IoErr("Other", "stream") ELSE IoOk(Min({to_read, Len(stream), env.short}))

\* eat, 168-178: the bytes are read one by one and compared; how many were
\* read, and whether they were the expected ones.
RECURSIVE Eat(_, _)
Eat(stream, bytes) ==
    IF bytes = << >> THEN [ok |-> TRUE, n |-> 0]
    ELSE IF stream = << >> THEN [ok |-> FALSE, n |-> 0]
    ELSE IF stream[1] # bytes[1] THEN [ok |-> FALSE, n |-> 1]
    ELSE With(Eat(Tail(stream), Tail(bytes)), LAMBDA rest : [ok |-> rest.ok, n |-> rest.n + 1])

LINE_ENDING == <<CR, LF>>

InvalidCharacters == IoErr("InvalidInput", "Invalid characters found")

\* read_chunk_size on the stream: the turns of its loop up to its return.
RECURSIVE RunChunk(_)
RunChunk(c) == IF c.pc = "loop" THEN RunChunk(ChunkTurn(c)) ELSE c

read_chunk_size(stream) == RunChunk(NewChunk(stream))

\* A u64 as a number, for the sizes that fit in two limbs.
U64Value(size) == size[3] * LimbBase + size[4]

Drop(s, n) == SubSeq(s, n + 1, Len(s))

Returns(rd, r) == [rd EXCEPT !.ret = <<r>>]

\* The same without the test of an end of the stream.
SizedAfterReadMutant(rd, num) ==
    IF num > rd.remaining THEN Returns([rd EXCEPT !.remaining = 0], IoOk(num))
    ELSE Returns([rd EXCEPT !.remaining = @ - num], IoOk(num))

\* The end of the SizedReader arm, 108-115, the stream having given num
\* bytes.
SizedAfterRead(rd, num) ==
    IF num > rd.remaining THEN Returns([rd EXCEPT !.remaining = 0], IoOk(num))
    ELSE IF num = 0 THEN Returns(rd, EarlyEof)
    ELSE Returns([rd EXCEPT !.remaining = @ - num], IoOk(num))

\* The SizedReader arm, 100-117.
SizedRead(rd, buf_len, env) ==
    IF rd.remaining = 0 THEN Returns(rd, IoOk(0))
    ELSE With(StreamRead(rd.stream, Min({rd.remaining, buf_len}), env), LAMBDA num :
           IF ~num.ok THEN Returns(rd, num)
           ELSE SizedAfterRead([rd EXCEPT !.stream = Drop(@, num.n), !.eof = num.n = 0], num.n))

\* The ChunkedReader arm from the read of the data on, 141-156, rem bytes of
\* the chunk being outstanding.
ChunkedData(rd, rem, buf_len, env) ==
    With(StreamRead(rd.stream, Min({rem, buf_len}), env), LAMBDA count :
      IF ~count.ok THEN Returns(rd, count)
      ELSE IF count.n = 0 THEN Returns([rd EXCEPT !.opt_remaining = Some(0), !.eof = TRUE], EarlyEof)
      ELSE With([rd EXCEPT !.stream = Drop(@, count.n)], LAMBDA r1 :
             IF rem - count.n > 0 THEN Returns([r1 EXCEPT !.opt_remaining = Some(rem - count.n)], IoOk(count.n))
             ELSE With(Eat(r1.stream, LINE_ENDING), LAMBDA eaten :
                    IF ~eaten.ok THEN Returns([r1 EXCEPT !.stream = Drop(@, eaten.n)], InvalidCharacters)
                    ELSE Returns([r1 EXCEPT !.stream = Drop(@, eaten.n), !.opt_remaining = None],
                                 IoOk(count.n)))))

\* The same with the line ending eaten at every chunk of size 0.
ChunkedRestMutant(rd, rem, buf_len, env) ==
    IF rem = 0
    THEN With(Eat(rd.stream, LINE_ENDING), LAMBDA eaten :
           IF ~eaten.ok THEN Returns([rd EXCEPT !.stream = Drop(@, eaten.n)], InvalidCharacters)
           ELSE Returns([rd EXCEPT !.stream = Drop(@, eaten.n), !.opt_remaining = Some(0)], IoOk(0)))
    ELSE ChunkedData(rd, rem, buf_len, env)

\* The ChunkedReader arm from the size of the chunk on, 126-156.
ChunkedRest(rd, rem, buf_len, env) ==
    IF rem = 0
    THEN IF rd.opt_remaining = None
         THEN With(Eat(rd.stream, LINE_ENDING), LAMBDA eaten :
                IF ~eaten.ok THEN Returns([rd EXCEPT !.stream = Drop(@, eaten.n)], InvalidCharacters)
                ELSE Returns([rd EXCEPT !.stream = Drop(@, eaten.n), !.opt_remaining = Some(0)], IoOk(0)))
         ELSE Returns([rd EXCEPT !.opt_remaining = Some(0)], IoOk(0))
    ELSE ChunkedData(rd, rem, buf_len, env)

\* The ChunkedReader arm, 118-157.
ChunkedRead(rd, buf_len, env) ==
    IF rd.opt_remaining # None THEN ChunkedRest(rd, rd.opt_remaining[1], buf_len, env)
    ELSE With(read_chunk_size(rd.stream), LAMBDA c :
           IF ~c.result[1].ok
           THEN Returns([rd EXCEPT !.stream = Drop(@, c.pos)], IoErr(c.result[1].kind, c.result[1].desc))
           ELSE ChunkedRest([rd EXCEPT !.stream = Drop(@, c.pos)], U64Value(c.result[1].size), buf_len, env))

\* HttpReader::read, 95-165.
HttpReaderRead(rd, buf_len, env) ==
    IF buf_len = 0 THEN Returns(rd, IoOk(0))
    ELSE IF rd.kind = "SizedReader" THEN SizedRead(rd, buf_len, env)
    ELSE IF rd.kind = "ChunkedReader" THEN ChunkedRead(rd, buf_len, env)
    ELSE IF rd.kind = "EofReader"
    THEN With(StreamRead(rd.stream, buf_len, env), LAMBDA r :
           Returns([rd EXCEPT !.stream = Drop(@, r.n), !.eof = r.ok /\ r.n = 0], r))
    ELSE Returns(rd, IoOk(0))

NewReader(kind, stream, length) ==
    [kind |-> kind, stream |-> stream, length |-> length, remaining |-> length, opt_remaining |-> None,
     returned |-> 0, nreads |-> 0, ret |-> << >>, eof |-> FALSE, before |-> << >>, buf_len |-> 0]

Prefixes(s) == {SubSeq(s, 1, n) : n \in 0..Len(s)}

\* Chunked bodies: two chunks and the last one; one chunk with an
\* extension; the 9 bytes announced of which 7 come; a body followed by the
\* first byte of the next message.
ChunkedBodies ==
    Prefixes(<<50, CR, LF, 120, 121, CR, LF, 49, CR, LF, 122, CR, LF, B_0, CR, LF, CR, LF>>)
       \cup Prefixes(<<49, B_SEMICOLON, 101, CR, LF, 120, CR, LF, B_0, CR, LF>>)
       \cup {<<B_9, CR, LF, 102, 111, 111, B_SPACE, 98, B_a, 114>>, <<49, CR, LF, 120, 121, CR, LF>>,
             <<B_F, B_F, 88, CR, LF, 120>>, <<49, CR, LF, 120, CR, LF, B_0, CR, LF, CR, LF, 71>>}

InitReader ==
    /\ AuthIdle
    /\ ServerIdle(<< >>, << >>)
    /\ WorkerIdle
    /\ PutIdle
    /\ CacheIdle
    /\ BootIdle
    /\ writer = << >> /\ chunk = << >>
    /\ \/ \E length \in 0..MaxBodyLen, n \in 0..MaxBodyLen + 1 :
            reader = NewReader("SizedReader", Repeat(120, n), length)
       \/ \E stream \in ChunkedBodies : reader = NewReader("ChunkedReader", stream, 0)
       \/ \E kind \in {"EofReader", "EmptyReader"}, n \in 0..MaxBodyLen :
            reader = NewReader(kind, Repeat(120, n), 0)

\* A read call: what the reader was before it, what it is after it.
ReaderRead ==
    /\ reader.nreads < MaxReads
    /\ \E buf_len \in 0..MaxBufLen, short \in 1..MaxBufLen, fails \in BOOLEAN :
         Bind(HttpReaderRead([reader EXCEPT !.eof = FALSE, !.buf_len = buf_len,
                                            !.before = <<[remaining |-> reader.remaining,
                                                          opt_remaining |-> reader.opt_remaining]>>],
                             buf_len, [short |-> short, fails |-> fails]),
              LAMBDA rd :
                reader' = [rd EXCEPT !.nreads = @ + 1,
                                     !.returned = @ + (IF rd.ret[1].ok THEN rd.ret[1].n ELSE 0)])
    /\ UNCHANGED <<authVars, serverVars, workerVars, putVars, cacheVars, bootVars, writer, chunk>>

NextReader == ReaderRead

SpecReader == InitReader /\ [][NextReader]_vars

\* C20 (Early end of body is an error): a read in which the stream reports
\* the end of its input (gives 0 bytes) while a SizedReader has remaining > 0,
\* or while a ChunkedReader is inside a chunk with bytes outstanding,
\* returns the error "early eof" and not Ok(0); the bytes a SizedReader has
\* returned never exceed the declared length.
C20_EarlyEof ==
    (reader # << >> /\ reader.ret # << >>)
       => /\ (reader.kind \in {"SizedReader", "ChunkedReader"} /\ reader.eof) => reader.ret = <<EarlyEof>>
          /\ reader.kind = "SizedReader" => reader.returned <= reader.length

\* A SizedReader has returned a part of the declared length, a ChunkedReader
\* a part of a chunk, and the stream is at its end: the read is an error.
C20_Witness ==
    /\ reader # << >>
    /\ reader.eof
    /\ reader.returned > 0
    /\ reader.ret = <<EarlyEof>>
    /\ \/ reader.kind = "SizedReader" /\ reader.returned < reader.length
       \/ reader.kind = "ChunkedReader" /\ reader.before[1].opt_remaining # None

\* C21 (Chunked end is sticky): once a ChunkedReader has read the chunk of
\* size 0 and its line ending, every read call returns Ok(0) and leaves the
\* stream where it is; a read call with an empty buffer, on any reader,
\* returns Ok(0) and leaves the reader and the stream as they are.
C21_ChunkedEndSticky ==
    [][reader # << >>
         => /\ (reader.kind = "ChunkedReader" /\ reader.opt_remaining = Some(0))
                  => /\ reader'.ret = <<IoOk(0)>>
                     /\ reader'.stream = reader.stream
                     /\ reader'.opt_remaining = Some(0)
            /\ reader'.buf_len = 0
                  => /\ reader'.ret = <<IoOk(0)>>
                     /\ reader'.stream = reader.stream
                     /\ reader'.remaining = reader.remaining
                     /\ reader'.opt_remaining = reader.opt_remaining
                     /\ reader'.returned = reader.returned]_vars

\* A read with a buffer after the end of a chunked body that is followed by
\* a byte of the next message.
C21_Witness ==
    /\ reader # << >>
    /\ reader.kind = "ChunkedReader"
    /\ reader.before # << >>
    /\ reader.before[1].opt_remaining = Some(0)
    /\ reader.buf_len > 0
    /\ reader.returned = 1
    /\ reader.stream = <<71>>
    /\ reader.ret = <<IoOk(0)>>

(***************************************************************************)
(* SpecSync: PruneChain::handle, lock by lock.  Two worker threads take    *)
(* requests; a request is a sequence of steps, each of them one critical   *)
(* section, one atomic operation on a counter or one operation on the      *)
(* filesystem, and so is the prune() that follows it.  A write guard lives *)
(* from its step to the step that lets it go, and a thread that panics     *)
(* while it holds one poisons the lock; a panic ends the request and the   *)
(* worker is replaced.  The clock moves between the steps.  Beside the      *)
(* threads the variable keeps what the properties are about and the server *)
(* does not store: the responses seen, the start timestamps of the sweeps  *)
(* executed, the latest start timestamp an invocation of prune() has       *)
(* stored, the keys the sweeps removed, the time each rejected entry was   *)
(* put in, and whether two requests have missed on one key together.       *)
(***************************************************************************)

SyncWorkers == {"A", "B", "C"}

\* Requests taken in one behaviour, moves of the clock, and encoded files
\* that something outside the server removes.
MaxSyncRequests == 3
MaxTicks == 2
MaxLost == 1

\* The tree with a file that no encoding makes smaller by a tenth, r, and a
\* file of two bytes that is encoded to one, q.
SyncTree ==
    WriteFile(WriteFile(InitialTree, Append(HostedDirectory, <<"r">>), <<"a", "b">>, 0).fs,
              Append(HostedDirectory, <<"q">>), <<"q", "q">>, 0).fs

Brotli == Some(<< <<"br", 1>> >>)

\* The requests: f as gzip and as br, r and q as gzip, and the page of the
\* 404 for a path that is not there.
GetF == [NewRequest("GET", <<"/", "f">>) EXCEPT !.accept_encoding = Gzip]
GetFBr == [NewRequest("GET", <<"/", "f">>) EXCEPT !.accept_encoding = Brotli]
GetR == [NewRequest("GET", <<"/", "r">>) EXCEPT !.accept_encoding = Gzip]
GetQ == [NewRequest("GET", <<"/", "q">>) EXCEPT !.accept_encoding = Gzip]
GetN == [NewRequest("GET", <<"/", "n">>) EXCEPT !.accept_encoding = Gzip]

\* What the clients do in a behaviour: the requests each thread may be given
\* and how many are sent in all, the moves of the clock (in ticks) and how
\* many of them, and the number of encoded files lost.
Load(menu, reqs, jumps, ticks, lost) ==
    [menu |-> menu, reqs |-> reqs, jumps |-> jumps, ticks |-> ticks, lost |-> lost]

\* The menu of two threads that are given the same requests.
Both(requests) == [wk \in SyncWorkers |-> IF wk = "C" THEN {} ELSE requests]

Workloads ==
    {Load(Both({GetF}), MaxSyncRequests, {20}, MaxTicks - 1, 0),
     Load(Both({GetR}), MaxSyncRequests, {20}, MaxTicks - 1, 0),
     Load(Both({GetF, GetFBr}), MaxSyncRequests - 1, {20}, MaxTicks - 1, MaxLost),
     Load(Both({GetN}), MaxSyncRequests, {10, 12}, MaxTicks, 0),
     Load(Both({GetF, GetN}), MaxSyncRequests - 1, {10, 12}, MaxTicks, 0),
     Load([A |-> {GetF, GetR}, B |-> {GetF}, C |-> {GetF}], MaxSyncRequests + 1, {}, 0, 0),
     Load([A |-> {GetF, GetQ}, B |-> {GetQ}, C |-> {}], MaxSyncRequests, {20}, MaxTicks, 0)}

\* A thread between two requests.
Rest == [pc |-> "idle", req |-> << >>, miss |-> NoMiss, len |-> 0, start |-> 0, held |-> {}]

\* The response of a request, as the client sees it; status 0: none, the
\* worker panicked.
Seen(req, r) == [path |-> req.path, status |-> r.status, content_encoding |-> r.content_encoding, body |-> r.body]

InitSync ==
    /\ AuthIdle
    /\ ServerIdle(NewHandler(CacheOptions), SyncTree)
    /\ WorkerIdle
    /\ PutIdle
    /\ gets = << >> /\ ngets = 0
    /\ \E load \in Workloads :
       sync = [load |-> load,
               th |-> [wk \in SyncWorkers |-> Rest],
               seen |-> [wk \in SyncWorkers |-> << >>],
               poisoned |-> {},
               raced |-> FALSE,
               nreqs |-> 0, nticks |-> 0, nlost |-> 0,
               sweeps |-> << >>,
               latest |-> 0,
               swept |-> {},
               born |-> << >>]
    /\ BootIdle
    /\ H1Idle

\* RwLock: a lock is taken when no thread holds its write guard; read
\* guards are let go within the step that takes them.
Held(lock) == \E wk \in SyncWorkers : lock \in sync.th[wk].held

\* The server after a step: the world as w, the threads as s.
SyncSet(w, s) ==
    /\ SetWorld(w)
    /\ sync' = s
    /\ UNCHANGED <<authVars, handler, workerVars, putVars, gets, ngets, now, last_prune, bootVars, h1Vars>>

\* Thread wk panics: the locks it holds the write guards of, and those of
\* `guards`, are poisoned; the request gets no response and no prune(), and
\* another worker takes the place.
Panicked(s, wk, guards) ==
    [s EXCEPT !.th[wk] = Rest,
              !.seen[wk] = Seen(s.th[wk].req, Response(0)),
              !.poisoned = @ \cup s.th[wk].held \cup guards]

\* Thread wk goes on at pc.
Goes(s, wk, pc) == [s EXCEPT !.th[wk].pc = pc]

\* The response is made, and prune() is next; a handler that panicked under
\* the write guards of `guards` has poisoned them.
Responded(s, wk, r, guards) ==
    IF r.status = 0 THEN Panicked(s, wk, guards)
    ELSE [s EXCEPT !.th[wk] = [Rest EXCEPT !.pc = "fs_check", !.req = s.th[wk].req],
                   !.seen[wk] = Seen(s.th[wk].req, r)]

\* lock.read().expect(..) and lock.write().expect(..): the lock is taken
\* when no thread holds its write guard, and the thread panics when the
\* lock is poisoned; s is what the thread has done before, `then` the step
\* under the guard.
Locked(wk, lock, s, then) ==
    /\ ~Held(lock)
    /\ IF lock \in sync.poisoned THEN SyncSet(World, Panicked(s, wk, {})) ELSE then

\* The cache key of the page a request for a missing path is answered with
\* (ops/mod.rs 1321).
PageKey(req) == <<html_response("error", <<"404", url_path(req)>>), response_encoding(req.accept_encoding)[1]>>

\* What handle_get_file_encoded has in hand once the sidecar gave the
\* fingerprint, ops/mod.rs 654-667 and 699-705.
Target(h, files, fs, req) ==
    With(parse_requested_path(fs, h.hosted_directory, req.path).req_p, LAMBDA req_p :
    With(HashByEtag(files, file_etag(Metadata(fs, req_p)), Metadata(fs, req_p).data), LAMBDA hashed :
        [files |-> hashed.files,
         miss |-> [req_p |-> req_p,
                   etag |-> file_etag(Metadata(fs, req_p)),
                   cache_key |-> <<hashed.hash, response_encoding(req.accept_encoding)[1]>>,
                   resp_p |-> EncodedPath(h, hashed.hash, req_p, response_encoding(req.accept_encoding)[1])]]))

\* Thread wk has taken req.
Taken(wk, req) == [sync EXCEPT !.nreqs = @ + 1, !.th[wk].req = req]

\* A request for a file arrives: create_temp_dir, and the fingerprint from
\* the sidecar, put there when it is not (ops/mod.rs 652-667).
TakeFile(wk) ==
    /\ sync.th[wk].pc = "idle"
    /\ sync.nreqs < sync.load.reqs
    /\ \E req \in sync.load.menu[wk] :
          /\ Exists(disk, parse_requested_path(disk, handler.hosted_directory, req.path).req_p)
          /\ Locked(wk, "cache_fs_files", Taken(wk, req),
                Bind(Target(handler, cache_fs_files, disk, req), LAMBDA tg :
                    SyncSet([World EXCEPT !.fs = create_temp_dir(@, handler.encoded_temp_dir),
                                          !.cache_fs_files = tg.files],
                            [Taken(wk, req) EXCEPT !.th[wk].pc = "lookup", !.th[wk].miss = tg.miss])))

\* TRUE when another thread has missed on the key and has not inserted yet.
Racing(wk, cache_key) ==
    \E other \in SyncWorkers \ {wk} :
       sync.th[other].pc \in {"encode", "measure", "store"} /\ sync.th[other].miss.cache_key = cache_key

\* A lookup that counts the size of the entry it hits once more.
FileLookupMutant(wk) ==
    /\ sync.th[wk].pc = "lookup"
    /\ Locked(wk, "cache_fs", sync,
          Bind(sync.th[wk].miss, LAMBDA miss :
             IF miss.cache_key \in DOMAIN cache_fs
             THEN Bind(EncodedLookup(handler, World, miss.req_p, miss.etag, miss.cache_key,
                                     Metadata(disk, miss.req_p).data, miss.resp_p, NoFault), LAMBDA o :
                     SyncSet([o.w EXCEPT !.cache_fs_size = @ + cache_fs[miss.cache_key].size],
                             Responded(sync, wk, o.r, {})))
             ELSE SyncSet(World, [Goes(sync, wk, "encode") EXCEPT !.raced = @ \/ Racing(wk, miss.cache_key)])))

\* The lookup of the cache key under the read guard of cache_fs (ops/mod.rs
\* 669-697): a hit and a rejected entry are answered, a miss goes on to
\* encode.
FileLookup(wk) ==
    /\ sync.th[wk].pc = "lookup"
    /\ Locked(wk, "cache_fs", sync,
          Bind(sync.th[wk].miss, LAMBDA miss :
             IF miss.cache_key \in DOMAIN cache_fs
             THEN Bind(EncodedLookup(handler, World, miss.req_p, miss.etag, miss.cache_key,
                                     Metadata(disk, miss.req_p).data, miss.resp_p, NoFault), LAMBDA o :
                     SyncSet(o.w, Responded(sync, wk, o.r, {})))
             ELSE SyncSet(World, [Goes(sync, wk, "encode") EXCEPT !.raced = @ \/ Racing(wk, miss.cache_key)])))

\* encode_file(&req_p, &resp_p, &encoding), ops/mod.rs 707.
EncodeFile(wk) ==
    /\ sync.th[wk].pc = "encode"
    /\ Bind(sync.th[wk].miss, LAMBDA miss :
          SyncSet([World EXCEPT !.fs = WriteFile(@, miss.resp_p, Squeeze(Metadata(disk, miss.req_p).data), now).fs],
                  Goes(sync, wk, "measure")))

\* resp_p.metadata().expect(..), ops/mod.rs 708: the length of the encoded
\* file, or a panic when the file is not there.
Measure(wk) ==
    /\ sync.th[wk].pc = "measure"
    /\ IF IsFile(disk, sync.th[wk].miss.resp_p)
       THEN SyncSet(World, [sync EXCEPT !.th[wk].pc = "store",
                                        !.th[wk].len = file_length(Metadata(disk, sync.th[wk].miss.resp_p))])
       ELSE SyncSet(World, Panicked(sync, wk, {}))

\* The time each rejected entry was put in.
Born(born, cache, t) == [k \in {x \in DOMAIN cache : ~cache[x].present} |-> IF k \in DOMAIN born THEN born[k] ELSE t]

\* The section under the write guard of cache_fs, ops/mod.rs 710-731: the
\* rejected entry and the removal of the encoded file, or the counter, the
\* entry and the response.  A panic in it poisons cache_fs.
Store(wk) ==
    /\ sync.th[wk].pc = "store"
    /\ Locked(wk, "cache_fs", sync,
          Bind(sync.th[wk].miss, LAMBDA miss :
          Bind(StoreEncoded(handler, World, miss.cache_key, miss.resp_p,
                            file_length(Metadata(disk, miss.req_p)), sync.th[wk].len), LAMBDA stored :
          Bind(EncodedMissResponse(stored, miss.req_p, miss.resp_p, miss.cache_key, miss.etag), LAMBDA o :
             SyncSet(o.w, [Responded(sync, wk, o.r, {"cache_fs"}) EXCEPT !.born = Born(@, o.w.cache_fs, now)])))))

\* A request for a path that is not there arrives: the page of the 404 from
\* cache_gen under its read guard, ops/mod.rs 1321-1340, or a miss.
TakePage(wk) ==
    /\ sync.th[wk].pc = "idle"
    /\ sync.nreqs < sync.load.reqs
    /\ \E req \in sync.load.menu[wk] :
          /\ ~Exists(disk, parse_requested_path(disk, handler.hosted_directory, req.path).req_p)
          /\ Locked(wk, "cache_gen", Taken(wk, req),
                IF PageKey(req) \in DOMAIN cache_gen
                THEN Bind(handle(handler, World, req, NoFault), LAMBDA o :
                        SyncSet(o.w, Responded(Taken(wk, req), wk, o.r, {})))
                ELSE SyncSet(World, Goes(Taken(wk, req), wk, "gen_store")))

\* The section under the write guard of cache_gen, ops/mod.rs 1348-1358:
\* the counter and the entry, whatever the map holds by now.
StorePage(wk) ==
    /\ sync.th[wk].pc = "gen_store"
    /\ Locked(wk, "cache_gen", sync,
          Bind(handle(handler, [World EXCEPT !.cache_gen = Restrict(@, DOMAIN @ \ {PageKey(sync.th[wk].req)})],
                      sync.th[wk].req, NoFault), LAMBDA o :
             SyncSet(o.w, Responded(sync, wk, o.r, {"cache_gen"}))))

\* prune(), prune.rs 40-42: the counter of the filesystem cache against its
\* limit, and the start timestamp when the cap phase is to run.
FsCheck(wk) ==
    /\ sync.th[wk].pc = "fs_check"
    /\ IF handler.opts.encoded_filesystem_limit # None /\ cache_fs_size > handler.opts.encoded_filesystem_limit[1]
       THEN SyncSet(World, [sync EXCEPT !.th[wk].pc = "cap_files", !.th[wk].start = now])
       ELSE SyncSet(World, Goes(sync, wk, "gen_check"))

\* A thread that takes the guard of cache_gen along with every guard.
AcquireMutant(wk, lock, pc) ==
    Locked(wk, lock, sync, SyncSet(World, [sync EXCEPT !.th[wk].pc = pc, !.th[wk].held = @ \cup {lock, "cache_gen"}]))

\* lock.write().expect(..) of a guard that lives on to a later step.
Acquire(wk, lock, pc) ==
    Locked(wk, lock, sync, SyncSet(World, [sync EXCEPT !.th[wk].pc = pc, !.th[wk].held = @ \cup {lock}]))

\* A size-cap phase that takes the guard of cache_fs first.
CapLockFilesMutant(wk) == sync.th[wk].pc = "cap_files" /\ Acquire(wk, "cache_fs", "cap_fs")

\* prune.rs 44: the write guard of cache_fs_files.
CapLockFiles(wk) == sync.th[wk].pc = "cap_files" /\ Acquire(wk, "cache_fs_files", "cap_fs")

\* prune.rs 46: the write guard of cache_fs.
CapLockFs(wk) == sync.th[wk].pc = "cap_fs" /\ Acquire(wk, "cache_fs", "cap_evict")

\* prune.rs 47-64: the eviction loop, the counter and the sidecar; both
\* guards are let go.
CapEvict(wk) ==
    /\ sync.th[wk].pc = "cap_evict"
    /\ \E w \in PruneFsCap(handler, World) :
          SyncSet(w, [sync EXCEPT !.th[wk].pc = "gen_check", !.th[wk].held = {}])

\* prune.rs 67-71: the counter of the generated cache against its limit.
GenCheck(wk) ==
    /\ sync.th[wk].pc = "gen_check"
    /\ IF handler.opts.encoded_generated_limit # None /\ cache_gen_size > handler.opts.encoded_generated_limit[1]
       THEN SyncSet(World, [sync EXCEPT !.th[wk].pc = "gen_evict",
                                        !.th[wk].start = IF @ = 0 THEN now ELSE @])
       ELSE SyncSet(World, Goes(sync, wk, "age_start"))

\* prune.rs 73-84: the eviction loop under the write guard of cache_gen.
GenEvict(wk) ==
    /\ sync.th[wk].pc = "gen_evict"
    /\ Locked(wk, "cache_gen", sync,
          \E w \in PruneGenCap(handler, World) : SyncSet(w, Goes(sync, wk, "age_start")))

\* prune.rs 87-90: the start timestamp, when no phase took it before.
AgeStart(wk) ==
    /\ sync.th[wk].pc = "age_start"
    /\ IF handler.opts.encoded_prune = None THEN SyncSet(World, [sync EXCEPT !.th[wk] = Rest])
       ELSE SyncSet(World, [sync EXCEPT !.th[wk].pc = "age_swap", !.th[wk].start = IF @ = 0 THEN now ELSE @])

\* TRUE when the sweep is due, prune.rs 93.
SweepDue(h, last, start) == last < start /\ (start - last) \div TicksPerSecond >= h.prune_interval

\* The later of two timestamps.
Later(a, b) == IF a > b THEN a ELSE b

\* prune.rs 92-93: last_prune.swap(start), and the test of the interval.
AgeSwap(wk) ==
    /\ sync.th[wk].pc = "age_swap"
    /\ last_prune' = sync.th[wk].start
    /\ SetWorld(World)
    /\ sync' = IF SweepDue(handler, last_prune, sync.th[wk].start)
               THEN [sync EXCEPT !.th[wk].pc = "age_files", !.sweeps = Append(@, sync.th[wk].start),
                                 !.latest = Later(@, sync.th[wk].start)]
               ELSE [sync EXCEPT !.th[wk] = Rest, !.latest = Later(@, sync.th[wk].start)]
    /\ UNCHANGED <<authVars, handler, workerVars, putVars, gets, ngets, now, bootVars, h1Vars>>

\* prune.rs 95: the write guard of cache_fs_files.
AgeLockFiles(wk) == sync.th[wk].pc = "age_files" /\ Acquire(wk, "cache_fs_files", "age_fs")

\* prune.rs 97: the write guard of cache_fs.
AgeLockFs(wk) == sync.th[wk].pc = "age_fs" /\ Acquire(wk, "cache_fs", "age_sweep")

\* prune.rs 98-112: the sweep of the filesystem cache; both guards are let
\* go.
AgeSweepFs(wk) ==
    /\ sync.th[wk].pc = "age_sweep"
    /\ Bind(SweepFs(World, sync.th[wk].start, handler.opts.encoded_prune[1]), LAMBDA w :
          SyncSet(w, [sync EXCEPT !.th[wk].pc = "age_gen", !.th[wk].held = {},
                                  !.swept = @ \cup (DOMAIN cache_fs \ DOMAIN w.cache_fs)]))

\* prune.rs 115-126: the sweep of the generated cache under its write
\* guard; prune() returns.
AgeSweepGen(wk) ==
    /\ sync.th[wk].pc = "age_gen"
    /\ Locked(wk, "cache_gen", sync,
          Bind(SweepGen(World, sync.th[wk].start, handler.opts.encoded_prune[1]), LAMBDA w :
             SyncSet(w, [sync EXCEPT !.th[wk] = Rest,
                                     !.swept = @ \cup (DOMAIN cache_gen \ DOMAIN w.cache_gen)])))

\* The clock moves.
Tick ==
    /\ sync.nticks < sync.load.ticks
    /\ \E d \in sync.load.jumps : now' = now + d
    /\ sync' = [sync EXCEPT !.nticks = @ + 1]
    /\ SetWorld(World)
    /\ UNCHANGED <<authVars, handler, workerVars, putVars, gets, ngets, last_prune, bootVars, h1Vars>>

\* The encoded files on the disk.
EncodedFiles(fs) == {q \in DOMAIN fs : fs[q].kind = "file" /\ Len(q) = Len(EncodedTempDir) + 1
                                       /\ SubSeq(q, 1, Len(EncodedTempDir)) = EncodedTempDir}

\* Something outside the server removes an encoded file (the temporary
\* directory is swept, say).
FileLost ==
    /\ sync.nlost < sync.load.lost
    /\ \E q \in EncodedFiles(disk) :
          SyncSet([World EXCEPT !.fs = RemoveFile(@, q).fs], [sync EXCEPT !.nlost = @ + 1])

NextSync ==
    \/ \E wk \in SyncWorkers :
          \/ TakeFile(wk)
          \/ FileLookup(wk)
          \/ EncodeFile(wk)
          \/ Measure(wk)
          \/ Store(wk)
          \/ TakePage(wk)
          \/ StorePage(wk)
          \/ FsCheck(wk)
          \/ CapLockFiles(wk)
          \/ CapLockFs(wk)
          \/ CapEvict(wk)
          \/ GenCheck(wk)
          \/ GenEvict(wk)
          \/ AgeStart(wk)
          \/ AgeSwap(wk)
          \/ AgeLockFiles(wk)
          \/ AgeLockFs(wk)
          \/ AgeSweepFs(wk)
          \/ AgeSweepGen(wk)
    \/ Tick
    \/ FileLost

SpecSync == InitSync /\ [][NextSync]_vars

\* C22 (Counter equals map content): in every reachable state in which no
\* cache write lock is held, cache_fs_size equals the sum of the sizes of
\* the present entries of cache_fs and cache_gen_size equals the sum of the
\* byte lengths of the entries of cache_gen, also after two requests missed
\* concurrently on the same key and both inserted.
C22_CounterEqualsMap ==
    (sync # << >> /\ \A wk \in SyncWorkers : sync.th[wk].held = {})
       => /\ cache_fs_size = SumOf(cache_fs, {k \in DOMAIN cache_fs : cache_fs[k].present}, "size")
          /\ cache_gen_size = SumOf(cache_gen, DOMAIN cache_gen, "len")

\* A response to a request for a file that is right: the file as it is, or
\* its encoded form named as such.
ServedCorrectly(fs, seen) ==
    With(Metadata(fs, parse_requested_path(fs, HostedDirectory, seen.path).req_p).data, LAMBDA data :
        /\ seen.status = 200
        /\ \/ seen.content_encoding = None /\ seen.body = Some(data)
           \/ seen.content_encoding # None /\ seen.body = Some(Squeeze(data)))

\* C23 (Concurrent misses stay correct): once two requests have missed
\* concurrently on the same filesystem CacheKey, and no encoded file is
\* removed from outside, every request is answered, and correctly, no
\* worker aborts, no lock is poisoned, the file of every present entry
\* exists on disk, and when the two requests are done the map holds one
\* entry, the one for the key.
C23_ConcurrentMisses ==
    (sync # << >> /\ sync.raced /\ sync.load.lost = 0 /\ GetN \notin UNION {sync.load.menu[wk] : wk \in SyncWorkers})
       => /\ sync.poisoned = {}
          /\ \A wk \in SyncWorkers : sync.seen[wk] # << >> => ServedCorrectly(disk, sync.seen[wk])
          /\ \A k \in DOMAIN cache_fs : cache_fs[k].present => IsFile(disk, cache_fs[k].path)
          /\ (sync.nreqs = 2 /\ \A wk \in SyncWorkers : sync.th[wk].pc = "idle")
                => Cardinality(DOMAIN cache_fs) = 1

C25_SweepRate ==
    sync # << >> =>
       \A i \in 1..Len(sync.sweeps), j \in 1..Len(sync.sweeps) :
          (i # j /\ sync.sweeps[i] <= sync.sweeps[j])
             => sync.sweeps[j] - sync.sweeps[i] >= handler.prune_interval * TicksPerSecond

\* The rejected entries of a cache map.
Sentinels(cache) == {k \in DOMAIN cache : ~cache[k].present}

\* C26 (Rejected sentinel survives pruning): once inserted, a rejected
\* sentinel (present = false, size 0, atime u64::MAX) stays in the
\* filesystem cache as it is, under every step of every prune(): the
\* size-cap phase does not remove it, also when only sentinels are left
\* while the counter still exceeds the limit, and the TTL sweep does not
\* remove it.
C26_SentinelSurvives ==
    [][sync # << >> =>
          \A k \in Sentinels(cache_fs) :
             /\ cache_fs[k] = [path |-> << >>, present |-> FALSE, size |-> 0, atime |-> U64_MAX]
             /\ k \in DOMAIN cache_fs' /\ cache_fs'[k] = cache_fs[k]]_vars

\* C26 witness: a size-cap phase has just ended with nothing but a rejected
\* sentinel left in the map and the counter still above the limit.
C26_Witness ==
    /\ sync # << >>
    /\ DOMAIN cache_fs # {} /\ Sentinels(cache_fs) = DOMAIN cache_fs
    /\ cache_fs_size > handler.opts.encoded_filesystem_limit[1]
    /\ \E wk \in SyncWorkers : sync.th[wk].pc = "gen_check" /\ sync.th[wk].start # 0

\* TRUE when the step is the sweep of the filesystem cache by thread wk.
SweepsFs(wk) == sync.th[wk].pc = "age_sweep" /\ sync'.th[wk].pc = "age_gen"

\* The rejected entries put in more than the TTL before `start`.
Aged(start) ==
    {k \in Sentinels(cache_fs) :
        sync.born[k] <= start /\ (start - sync.born[k]) \div TicksPerSecond > handler.opts.encoded_prune[1]}

SweepsGen(wk) ==
    /\ sync.th[wk].pc = "age_gen" /\ sync'.th[wk].pc = "idle"
    /\ "cache_gen" \notin sync.poisoned

\* The keys of a cache whose atime a satisfies a <= s and
\* floor((s - a) / 10^9) > TTL.
Expired(cache, s, ttl) ==
    {k \in DOMAIN cache : cache[k].atime <= s /\ (s - cache[k].atime) \div TicksPerSecond > ttl}

\* TRUE when `after` is `before` without the keys of `gone`.
Without(before, after, gone) ==
    /\ DOMAIN after = DOMAIN before \ gone
    /\ \A k \in DOMAIN after : after[k] = before[k]

\* C28 (TTL sweep effect): when the TTL sweep runs with start timestamp s, it
\* removes from each cache exactly the entries whose atime a satisfies
\* a <= s and floor((s - a) / 10^9) > TTL (for filesystem entries: and whose
\* file deletion succeeds, the file being there), subtracts the size of
\* each removed entry from the matching counter, and keeps every other
\* entry, including entries hit after s was taken.
C28_TtlSweepEffect ==
    [][sync # << >> =>
          \A wk \in SyncWorkers :
             /\ SweepsFs(wk) =>
                   LET gone == {k \in Expired(cache_fs, sync.th[wk].start, handler.opts.encoded_prune[1]) :
                                   cache_fs[k].path \in DOMAIN disk}
                   IN  /\ Without(cache_fs, cache_fs', gone)
                       /\ cache_fs_size' = cache_fs_size - SumOf(cache_fs, gone, "size")
                       /\ DOMAIN disk' = DOMAIN disk \ {cache_fs[k].path : k \in gone}
                       /\ UNCHANGED <<cache_gen, cache_gen_size>>
             /\ SweepsGen(wk) =>
                   LET gone == Expired(cache_gen, sync.th[wk].start, handler.opts.encoded_prune[1])
                   IN  /\ Without(cache_gen, cache_gen', gone)
                       /\ cache_gen_size' = cache_gen_size - SumOf(cache_gen, gone, "len")
                       /\ UNCHANGED <<cache_fs, cache_fs_size, disk>>]_vars

\* C28 witness: the sweep of the filesystem cache has just run: it has
\* removed an entry, and it has kept an entry that was hit after the start
\* timestamp was taken.
C28_Witness ==
    /\ sync # << >>
    /\ \E wk \in SyncWorkers :
          /\ sync.th[wk].pc = "age_gen"
          /\ \E k \in sync.swept : k \notin DOMAIN cache_fs /\ k \notin DOMAIN cache_gen
          /\ \E k \in DOMAIN cache_fs : cache_fs[k].present /\ cache_fs[k].atime > sync.th[wk].start

\* TRUE when the step is the eviction loop or the sweep of the filesystem
\* cache by thread wk.
PrunesFs(wk) == sync.th[wk].pc \in {"cap_evict", "age_sweep"} /\ sync'.th[wk].pc # sync.th[wk].pc

\* The present entries whose encoded file is not there to be deleted.
Undeletable(cache, fs) == {k \in DOMAIN cache : cache[k].present /\ cache[k].path \notin DOMAIN fs}

\* What the counter of the filesystem cache is ahead of the present entries.
Drift(cache, size) == size - SumOf(cache, {k \in DOMAIN cache : cache[k].present}, "size")

\* C29 (Delete failure keeps accounting consistent): an entry whose encoded
\* file cannot be deleted during pruning stays in the map as it is; the
\* size-cap phase evicts nothing that was used after it; the counter is
\* decreased by the sizes of the entries removed and by nothing else, so
\* that it still equals the sum of the present entries' sizes when it did
\* before; and the sidecar keeps the keys of the entry's fingerprint.
C29_DeleteFailure ==
    [][sync # << >> =>
          \A wk \in SyncWorkers :
             PrunesFs(wk) =>
                \A k \in Undeletable(cache_fs, disk) :
                   /\ k \in DOMAIN cache_fs' /\ cache_fs'[k] = cache_fs[k]
                   /\ sync.th[wk].pc = "cap_evict"
                         => \A gone \in DOMAIN cache_fs \ DOMAIN cache_fs' :
                               cache_fs[gone].atime <= cache_fs[k].atime
                   /\ Drift(cache_fs', cache_fs_size') = Drift(cache_fs, cache_fs_size)
                   /\ \A e \in DOMAIN cache_fs_files :
                         cache_fs_files[e] = k[1] => e \in DOMAIN cache_fs_files']_vars

\* The keys of the sidecar whose fingerprint has a present entry in the map.
Backed(files, cache) == {e \in DOMAIN files : \E k \in DOMAIN cache : cache[k].present /\ k[1] = files[e]}

\* C30 (Sidecar cleanup): after any prune() step that removes filesystem
\* cache entries, the sidecar holds exactly the previous keys whose
\* fingerprint still has at least one present entry in the filesystem
\* cache: the keys whose fingerprint has no present entry left are dropped,
\* and the keys whose fingerprint still has a present entry (under another
\* encoding, say) are kept.
C30_SidecarCleanup ==
    [][sync # << >> =>
          \A wk \in SyncWorkers :
             (PrunesFs(wk) /\ DOMAIN cache_fs' # DOMAIN cache_fs)
                => /\ DOMAIN cache_fs_files' = Backed(cache_fs_files, cache_fs')
                   /\ \A e \in DOMAIN cache_fs_files' : cache_fs_files'[e] = cache_fs_files[e]]_vars

\* The step of thread wk is the lookup of handle_get_file_encoded that
\* finds a present entry (ops/mod.rs 670-687).
HitsFile(wk) ==
    /\ sync.th[wk].pc = "lookup"
    /\ sync'.th[wk] # sync.th[wk]
    /\ "cache_fs" \notin sync.poisoned
    /\ sync.th[wk].miss.cache_key \in DOMAIN cache_fs
    /\ cache_fs[sync.th[wk].miss.cache_key].present

\* The step of thread wk is the lookup of
\* handle_generated_response_encoding that finds the page (ops/mod.rs
\* 1324-1338).
HitsPage(wk) ==
    /\ sync.th[wk].pc = "idle"
    /\ sync'.th[wk].pc = "fs_check"
    /\ PageKey(sync'.th[wk].req) \in DOMAIN cache_gen

\* The maps and the counters after a step are those before it, but for the
\* atime of entry k of the cache `hit`, which is the clock.
OnlyAtime(hit, k) ==
    /\ cache_fs' = (IF hit = "cache_fs" THEN [cache_fs EXCEPT ![k].atime = now] ELSE cache_fs)
    /\ cache_gen' = (IF hit = "cache_gen" THEN [cache_gen EXCEPT ![k].atime = now] ELSE cache_gen)
    /\ cache_fs_size' = cache_fs_size
    /\ cache_gen_size' = cache_gen_size

\* C31 (A hit changes only the atime): a hit on the filesystem cache or on
\* the generated cache sets the atime of the entry that is hit to the clock
\* and leaves the key sets of both maps, the path, size and bytes of every
\* entry and both counters as they were; the thread holds no write guard
\* when it hits, and none after, and no thread holds the write guard of the
\* cache that is hit.
C31_HitChangesOnlyAtime ==
    [][\A wk \in SyncWorkers :
          /\ HitsFile(wk) => /\ OnlyAtime("cache_fs", sync.th[wk].miss.cache_key)
                             /\ sync.th[wk].held = {} /\ sync'.th[wk].held = {}
                             /\ ~Held("cache_fs")
          /\ HitsPage(wk) => /\ OnlyAtime("cache_gen", PageKey(sync'.th[wk].req))
                             /\ sync.th[wk].held = {} /\ sync'.th[wk].held = {}
                             /\ ~Held("cache_gen")]_vars

\* Two requests for f were answered with the encoded file, they did not miss
\* together and nothing was swept or evicted between them: the second was a
\* hit, and the entry has the atime of it.
C31_Witness ==
    /\ sync.nreqs = 2 /\ ~sync.raced /\ sync.swept = {} /\ sync.nticks = 1
    /\ \A wk \in {"A", "B"} :
          /\ sync.seen[wk] # << >>
          /\ sync.seen[wk].path = GetF.path
          /\ sync.seen[wk].status = 200
          /\ sync.seen[wk].content_encoding = Some("gzip")
          /\ sync.seen[wk].body = Some(<<"x", "y">>)
    /\ cache_fs_size = 2
    /\ \E k \in DOMAIN cache_fs : cache_fs[k].present /\ cache_fs[k].atime = now /\ now > 20

(***************************************************************************)
(* SpecFile: the static file responder on files of every length from the   *)
(* empty file to one byte above MAX_ENCODING_SIZE, with and without an     *)
(* encoded-temp directory, asked for whole, encoded and by byte range.     *)
(***************************************************************************)

FileLens == 0..(MAX_ENCODING_SIZE + 1)

\* A content of n bytes that encoding makes shorter when n > 1.
FileData(n) == [i \in 1..n |-> IF i % 3 = 0 THEN "y" ELSE "x"]

ZGz == <<"z", ".", "g", "z">>

\* The tree with f of n bytes, and z.gz, of an extension on the blacklist,
\* with the same content.
FileTree(n) ==
    WriteFile(WriteFile(InitialTree, Append(HostedDirectory, <<"f">>), FileData(n), 0).fs,
              Append(HostedDirectory, ZGz), FileData(n), 0).fs

\* The sandbox with the encoding of files, and without.
FileOptions == {SandboxOptions, [SandboxOptions EXCEPT !.encode_fs = FALSE]}

FileRanges ==
    UNION {{<<"FromTo", a, b>> : b \in a..MaxRangePos} : a \in 0..MaxRangePos}
    \cup {<<"AllFrom", a>> : a \in 0..(MaxRangePos + 1)}
    \cup {<<"Last", a>> : a \in 0..(MaxRangePos + 1)}

\* An Accept-Encoding header the server has no encoding for.
Identity == Some(<< <<"identity", 1>> >>)

FileRequests ==
    LET file == <<"/", "f">> IN
    {[NewRequest("GET", file) EXCEPT !.accept_encoding = ae] : ae \in {None, Gzip, Identity}}
    \cup {[NewRequest("GET", <<"/">> \o ZGz) EXCEPT !.accept_encoding = Gzip]}
    \cup {[NewRequest("GET", file) EXCEPT !.range = Some(ra)] : ra \in FileRanges}

\* The builds: without overflow checks, and with them where a subtraction
\* can wrap.
Builds(req) ==
    IF req.range # None /\ req.range[1][1] \in {"AllFrom", "Last"}
    THEN {NoFault, [NoFault EXCEPT !.overflow_checks = TRUE]}
    ELSE {NoFault}

InitFile ==
    /\ AuthIdle
    /\ \E n \in FileLens, opts \in FileOptions : ServerIdle(NewHandler(opts), FileTree(n))
    /\ WorkerIdle
    /\ PutIdle
    /\ CacheIdle
    /\ BootIdle
    /\ H1Idle

\* HttpHandler::handle for a request for the file, the first half of
\* PruneChain::handle; prune() is the second.
ServeFile ==
    /\ stage = "handle"
    /\ nreq < MaxRequests
    /\ \E req \in FileRequests : \E env \in Builds(req) : Respond(req, handle(handler, World, req, env), env)
    /\ stage' = "prune"
    /\ nreq' = nreq + 1
    /\ UNCHANGED <<authVars, handler, last_prune, now, putVars, cacheVars, bootVars, h1Vars>>

NextFile == ServeFile \/ Prune

SpecFile == InitFile /\ [][NextFile]_vars

\* The first request has been answered: a GET of a file without a Range
\* header, with an Accept-Encoding the server has an encoding for, an
\* encoded-temp directory and an extension that is not on the blacklist.
C32_Encodable ==
    /\ resp # << >> /\ stage = "prune" /\ nreq = 1
    /\ resp.req.method = "GET" /\ resp.req.range = None
    /\ response_encoding(resp.req.accept_encoding) # None
    /\ handler.encoded_temp_dir # None
    /\ With(parse_requested_path(disk, handler.hosted_directory, resp.req.path).req_p, LAMBDA req_p :
          /\ IsFile(disk, req_p)
          /\ (extension(req_p) = None \/ ~extension_is_blacklisted(extension(req_p)[1])))

C32_Size == Len(Metadata(disk, parse_requested_path(disk, handler.hosted_directory, resp.req.path).req_p).data)

\* C32 (Encoding eligibility bounds): for such a request the filesystem
\* encoding cache is consulted (the fingerprint of the file is in the
\* sidecar after it) if and only if MIN_ENCODING_SIZE <= size <=
\* MAX_ENCODING_SIZE, both bounds included; otherwise the file is streamed
\* identity and no cache entry and no sidecar entry is created.
C32_EncodingEligibility ==
    C32_Encodable =>
       /\ (cache_fs_files # << >>) <=> (MIN_ENCODING_SIZE <= C32_Size /\ C32_Size <= MAX_ENCODING_SIZE)
       /\ ~(MIN_ENCODING_SIZE <= C32_Size /\ C32_Size <= MAX_ENCODING_SIZE) =>
             /\ cache_fs = << >> /\ cache_fs_files = << >>
             /\ resp.r.status = 200 /\ resp.r.content_encoding = None
             /\ resp.r.body = Some(FileData(C32_Size))

\* A request for f with one open byte range has been answered.
C33_Open ==
    /\ resp # << >> /\ stage = "prune"
    /\ resp.req.method = "GET" /\ resp.req.path = <<"/", "f">>
    /\ resp.req.range # None /\ resp.req.range[1][1] \in {"AllFrom", "Last"}

\* C33 (Open ranges): for a file of N >= 0 bytes, bytes=a- with a <= N and
\* bytes=-n with n <= N are answered 206 with Content-Range bytes
\* first-(N-1)/N where first <= N-1, the tail as the body and its length as
\* the Content-Length, and an offset above N is answered 204 without a body;
\* no case, a = N, n = 0 and N = 0 included, wraps or panics on N - 1,
\* N - a or N - n.
C33_OpenRanges ==
    C33_Open =>
       LET data == Metadata(disk, Append(HostedDirectory, <<"f">>)).data
           N == Len(data)
           off == resp.req.range[1][2]
           first == IF resp.req.range[1][1] = "AllFrom" THEN off ELSE N - off
       IN  IF off <= N
           THEN /\ resp.r.status = 206
                /\ first <= N - 1
                /\ resp.r.content_range = Some(<<first, N - 1, N>>)
                /\ resp.r.body = Some(SubSeq(data, first + 1, N))
                /\ resp.r.content_length = Some(N - first)
           ELSE /\ resp.r.status = 204
                /\ resp.r.body = None

\* C34 (Closed ranges always get a response): a GET of the file of N bytes
\* with one closed range bytes=a-b, a <= b, is answered 206 with
\* Content-Range bytes a-b/N and the bytes a..b of the file as the body, and
\* the worker does not abort, also when b >= N or a >= N (the body is then
\* what the file has of the range).
C34_ClosedRanges ==
    (/\ resp # << >> /\ stage = "prune"
     /\ resp.req.method = "GET" /\ resp.req.path = <<"/", "f">>
     /\ resp.req.range # None /\ resp.req.range[1][1] = "FromTo")
       => LET data == Metadata(disk, Append(HostedDirectory, <<"f">>)).data
              a == resp.req.range[1][2]
              b == resp.req.range[1][3]
          IN  /\ resp.r.status # 0
              /\ resp.r.status = 206
              /\ resp.r.content_range = Some(<<a, b, Len(data)>>)
              /\ resp.r.body = Some(SubSeq(data, a + 1, Min({b + 1, Len(data)})))

(***************************************************************************)
(* SpecResolve: one call of parse_requested_path_custom_symlink, one step  *)
(* for each segment of the fold and one for each iteration of its          *)
(* `while let Ok(newlink) = cur.read_link()` loop, on a tree with symlink  *)
(* cycles.  Beside the variables of the function the state counts the      *)
(* links followed, and keeps whether a segment named a symlink when it was *)
(* joined and whether one was met with the budget used up.                 *)
(***************************************************************************)

\* /s/a and /s/b   absolute links to each other
\* /s/c            a relative link to itself
\* /s/e            a relative link to li, itself a link to d
ResolveTree ==
    LET s == HostedDirectory
        links == {<<Append(s, <<"a">>), LinkNode(TRUE, Append(s, <<"b">>))>>,
                  <<Append(s, <<"b">>), LinkNode(TRUE, Append(s, <<"a">>))>>,
                  <<Append(s, <<"c">>), LinkNode(FALSE, << <<"c">> >>)>>,
                  <<Append(s, <<"e">>), LinkNode(FALSE, << <<"l", "i">> >>)>>}
    IN  [q \in DOMAIN InitialTree \cup {n[1] : n \in links} |->
            IF q \in DOMAIN InitialTree THEN InitialTree[q] ELSE (CHOOSE n \in links : n[1] = q)[2]]

\* The URL paths resolved: a file, links that end, the cycles, a cycle and
\* then a segment that decodes to the absolute path of a link, segments
\* under and above a cycle, an escape that is no UTF-8, empty segments.
ResolveUrls ==
    {<<"/", "f">>, <<"/", "l", "i", "/">>, <<"/", "l", "o", "/", "k">>, <<"/", "e">>,
     <<"/", "a">>, <<"/", "c">>,
     <<"/", "a", "/", "%2F", "s", "%2F", "l", "i">>,
     <<"/", "c", "/", "%2F", "s", "%2F", "e">>,
     <<"/", "c", "/", "x">>, <<"/", "c", "/", ".", ".", "/", "l", "i">>,
     <<"/", "%FF", "/", "l", "i">>, <<"/", "/", "e", "/", "/", "n">>}

InitResolve ==
    /\ AuthIdle
    /\ ServerIdle(NewHandler(SandboxOptions), ResolveTree)
    /\ WorkerIdle
    /\ PutIdle
    /\ CacheIdle
    /\ ports = << >>
    /\ H1Idle
    /\ \E req_url \in ResolveUrls, follow_symlinks \in BOOLEAN :
          walk = [req_url |-> req_url, follow_symlinks |-> follow_symlinks,
                  pc |-> "fold", segments |-> PathSegments(req_url),
                  st |-> [cur |-> handler.hosted_directory, sk |-> FALSE, err |-> FALSE, abs |-> TRUE,
                          depth_left |-> MAX_SYMLINKS],
                  result |-> << >>,
                  followed |-> 0, met |-> FALSE, late |-> FALSE]

ResolveStep(w) ==
    /\ walk' = w
    /\ UNCHANGED <<authVars, serverVars, workerVars, putVars, cacheVars, ports, h1Vars>>

\* The next segment of the fold, ops/mod.rs 1409-1417: an empty one is
\* filtered out, another is decoded and pushed, or sets err.
ResolvePush ==
    /\ walk.pc = "fold"
    /\ walk.segments # << >>
    /\ Bind(Head(walk.segments), LAMBDA pp :
       Bind([walk EXCEPT !.segments = Tail(@)], LAMBDA w :
          IF pp = << >> THEN ResolveStep(w)
          ELSE IF percent_decode(pp) = None
          THEN ResolveStep([w EXCEPT !.pc = "while", !.st.err = TRUE])
          ELSE Bind(PushStr(walk.st.cur, percent_decode(pp)[1]), LAMBDA cur :
                  ResolveStep([w EXCEPT !.pc = "while", !.st.cur = cur,
                                        !.met = @ \/ is_symlink(disk, cur)]))))

\* A loop that does not note the link it leaves unfollowed.
ResolveBreakMutant ==
    /\ walk.pc = "while"
    /\ ~(ReadLink(disk, walk.st.cur) # None /\ walk.follow_symlinks /\ walk.st.depth_left # 0)
    /\ ResolveStep([walk EXCEPT !.pc = "fold",
                                !.late = @ \/ (ReadLink(disk, walk.st.cur) # None /\ walk.follow_symlinks)])

\* An iteration of the loop that follows the link, ops/mod.rs 1418-1428.
ResolveFollow ==
    /\ walk.pc = "while"
    /\ ReadLink(disk, walk.st.cur) # None /\ walk.follow_symlinks /\ walk.st.depth_left # 0
    /\ Bind(ReadLink(disk, walk.st.cur)[1], LAMBDA newlink :
          ResolveStep([walk EXCEPT !.st.sk = TRUE,
                                   !.st.cur = IF newlink.abs THEN newlink.target ELSE Parent(@) \o newlink.target,
                                   !.st.abs = IF newlink.abs THEN @ ELSE FALSE,
                                   !.st.depth_left = @ - 1,
                                   !.followed = @ + 1]))

\* The end of the loop, ops/mod.rs 1418 and 1429-1431: cur is no link, or
\* it is one that is not followed.
ResolveBreak ==
    /\ walk.pc = "while"
    /\ ~(ReadLink(disk, walk.st.cur) # None /\ walk.follow_symlinks /\ walk.st.depth_left # 0)
    /\ ResolveStep([walk EXCEPT !.pc = "fold",
                                !.st.sk = @ \/ ReadLink(disk, walk.st.cur) # None,
                                !.late = @ \/ (ReadLink(disk, walk.st.cur) # None /\ walk.follow_symlinks)])

\* The fold is over, ops/mod.rs 1436-1442: the path is canonicalized when a
\* relative link was followed, and the triple is returned.
ResolveReturn ==
    /\ walk.pc = "fold"
    /\ walk.segments = << >>
    /\ ResolveStep([walk EXCEPT !.pc = "done",
                                !.result = [req_p |-> IF ~walk.st.abs THEN CanonicalizeOr(disk, walk.st.cur)
                                                      ELSE walk.st.cur,
                                            symlink |-> walk.st.sk,
                                            url_err |-> walk.st.err]])

NextResolve == ResolvePush \/ ResolveFollow \/ ResolveBreak \/ ResolveReturn

\* The call runs on: a thread that can take a step takes it.
SpecResolve == InitResolve /\ [][NextResolve]_vars /\ WF_vars(NextResolve)

\* C35 (Path resolution terminates): every resolution returns, with the
\* triple of parse_requested_path_custom_symlink; it follows at most
\* MAX_SYMLINKS links over all its segments, and with the budget used up it
\* leaves the path at the symlink it meets; the flag it returns is true when
\* a segment named a symlink as it was joined, followed or not.
C35_ResolutionTerminates ==
    /\ <>(walk.pc = "done")
    /\ [](walk.followed <= MAX_SYMLINKS)
    /\ [](walk.followed + walk.st.depth_left = MAX_SYMLINKS)
    /\ [][(walk.pc = "while" /\ walk.st.depth_left = 0) => walk'.st.cur = walk.st.cur]_vars
    /\ [](walk.pc = "done" =>
             /\ walk.met => walk.result.symlink
             /\ walk.result = parse_requested_path_custom_symlink(disk, handler.hosted_directory, walk.req_url,
                                                                  walk.follow_symlinks))

\* A resolution has returned after it followed MAX_SYMLINKS links of a
\* cycle and then met another symlink, which it left unfollowed.
C35_Witness ==
    /\ walk # << >> /\ walk.pc = "done"
    /\ walk.followed = MAX_SYMLINKS
    /\ walk.late
    /\ walk.result.symlink
    /\ is_symlink(disk, walk.result.req_p)

(***************************************************************************)
(* SpecSyncFair: the threads of SpecSync under a scheduler that is fair to *)
(* each of them: a thread that can take its next step, and can take it     *)
(* from then on, takes it.  The clock and the loss of files are under no   *)
(* obligation.                                                             *)
(***************************************************************************)

\* Requests taken in one behaviour of SpecSyncFair.
MaxFairRequests == 2

\* The next step of thread wk in PruneChain::handle.
SyncStep(wk) ==
    \/ TakeFile(wk) \/ FileLookup(wk) \/ EncodeFile(wk) \/ Measure(wk) \/ Store(wk)
    \/ TakePage(wk) \/ StorePage(wk)
    \/ FsCheck(wk) \/ CapLockFiles(wk) \/ CapLockFs(wk) \/ CapEvict(wk)
    \/ GenCheck(wk) \/ GenEvict(wk)
    \/ AgeStart(wk) \/ AgeSwap(wk) \/ AgeLockFiles(wk) \/ AgeLockFs(wk) \/ AgeSweepFs(wk) \/ AgeSweepGen(wk)

\* What the clients do in the behaviours of SpecSyncFair: requests for a
\* file in two encodings while an encoded file is lost, for a page while
\* the clock moves, and for both.
FairLoads ==
    {Load(Both({GetF, GetFBr}), MaxFairRequests, {}, 0, MaxLost),
     Load(Both({GetN}), MaxFairRequests, {20}, 1, 0),
     Load(Both({GetF, GetN}), MaxFairRequests, {}, 0, 0)}

InitFair ==
    /\ AuthIdle
    /\ ServerIdle(NewHandler(CacheOptions), SyncTree)
    /\ WorkerIdle
    /\ PutIdle
    /\ gets = << >> /\ ngets = 0
    /\ \E load \in FairLoads :
       sync = [load |-> load,
               th |-> [wk \in SyncWorkers |-> Rest],
               seen |-> [wk \in SyncWorkers |-> << >>],
               poisoned |-> {},
               raced |-> FALSE,
               nreqs |-> 0, nticks |-> 0, nlost |-> 0,
               sweeps |-> << >>,
               latest |-> 0,
               swept |-> {},
               born |-> << >>]
    /\ BootIdle
    /\ H1Idle

SpecSyncFair == InitFair /\ [][NextSync]_vars /\ \A wk \in SyncWorkers : WF_vars(SyncStep(wk))

\* The lock thread wk asks for in its next step.
Wants(wk) ==
    CASE sync.th[wk].pc \in {"cap_files", "age_files"} -> {"cache_fs_files"}
      [] sync.th[wk].pc \in {"lookup", "store", "cap_fs", "age_fs"} -> {"cache_fs"}
      [] sync.th[wk].pc \in {"gen_store", "gen_evict", "age_gen"} -> {"cache_gen"}
      [] OTHER -> {}

\* TRUE when thread wk is within a request and its next step waits for a
\* lock that another thread holds.
Blocked(wk) == sync.th[wk].pc # "idle" /\ \E lock \in Wants(wk) : Held(lock)

\* The threads within a request.
Busy == {wk \in SyncWorkers : sync.th[wk].pc # "idle"}

FsEntrySizes(cache) == SumOf(cache, DOMAIN cache, "size")
GenEntrySizes(cache) == SumOf(cache, DOMAIN cache, "len")

\* C37 (Counters never under-count): in every reachable state of the
\* threads, between any two of their steps, cache_fs_size is at least the
\* sum of the sizes of the entries of cache_fs and cache_gen_size at least
\* the sum of the lengths of the entries of cache_gen; and every step that
\* takes entries out of a map lowers its counter by exactly their sizes, so
\* no size - freed and no fetch_sub wraps around.
C37_CountersNeverUnderCount ==
    /\ [](sync # << >> =>
             /\ cache_fs_size >= FsEntrySizes(cache_fs)
             /\ cache_gen_size >= GenEntrySizes(cache_gen))
    /\ [][/\ DOMAIN cache_fs' # DOMAIN cache_fs /\ DOMAIN cache_fs' \subseteq DOMAIN cache_fs
             => cache_fs_size' + SumOf(cache_fs, DOMAIN cache_fs \ DOMAIN cache_fs', "size") = cache_fs_size
          /\ DOMAIN cache_gen' # DOMAIN cache_gen /\ DOMAIN cache_gen' \subseteq DOMAIN cache_gen
             => cache_gen_size' + SumOf(cache_gen, DOMAIN cache_gen \ DOMAIN cache_gen', "len") = cache_gen_size]_vars

\* Two requests have missed on one key together, the entry was counted
\* twice, and a prune() has emptied the map since: the counter is left over
\* the sum, which is zero.
C37_Witness ==
    /\ sync # << >>
    /\ sync.raced
    /\ sync.nreqs >= 2
    /\ \A wk \in SyncWorkers : sync.seen[wk] # << >> => sync.seen[wk].status = 200
    /\ DOMAIN cache_fs = {}
    /\ cache_fs_size > 0

\* TRUE when the step is the swap of thread wk, prune.rs 92.
Swaps(wk) == sync.th[wk].pc = "age_swap" /\ sync'.th[wk].pc # "age_swap"

\* C38 (TTL sweep gating): every prune() with a TTL configured stores its
\* start timestamp in last_prune, whether or not it goes on to the sweep;
\* it goes on to the sweep only if the timestamp it replaces is at least
\* prune_interval seconds older than its start; and an invocation whose
\* start is less than prune_interval seconds after the start of an
\* invocation that stored its timestamp before does not sweep, so that no
\* sweep runs while prune() is invoked more often than that.
C38_SweepGating ==
    [][\A wk \in SyncWorkers :
          Swaps(wk) =>
             /\ last_prune' = sync.th[wk].start
             /\ sync'.th[wk].pc = "age_files" =>
                   /\ last_prune + handler.prune_interval * TicksPerSecond <= sync.th[wk].start
                   /\ sync.latest + handler.prune_interval * TicksPerSecond <= sync.th[wk].start]_vars

(***************************************************************************)
(* SpecPutTwo: the two workers of SpecPut with a PUT each to a target of   *)
(* its own, the two targets of one file name in two directories.           *)
(***************************************************************************)

\* The file names of the targets: f, which exists in the hosted directory,
\* and n, which exists nowhere; worker A writes to /name, B to /d/name.
PutNames == {"f", "n"}

PutTargetOf(wk, name) == IF wk = "A" THEN <<"/", name>> ELSE <<"/", "d", "/", name>>

InitPutTwo ==
    /\ AuthIdle
    /\ ServerIdle(NewHandler(SandboxOptions), InitialTree)
    /\ WorkerIdle
    /\ \E name \in PutNames : puts = [wk \in PutWorkers |-> NewPut(wk, PutTargetOf(wk, name))]
    /\ orphans = << >>
    /\ observed = << >>
    /\ CacheIdle
    /\ BootIdle
    /\ H1Idle

SpecPutTwo == InitPutTwo /\ [][NextPut]_vars

\* The content of the target of worker wk.
PutContentOf(wk) == ReadFile(disk, HostedDirectory \o Components(Tail(puts[wk].req.path)))

\* C39 (PUTs to different targets do not interfere): when two concurrent
\* PUTs to different targets of one file name are over, neither handler has
\* aborted and each target holds the body of the PUT addressed to it.
C39_PutsDoNotInterfere ==
    (/\ puts # << >>
     /\ puts["A"].req.path # puts["B"].req.path
     /\ \A wk \in PutWorkers : puts[wk].pc = "done")
       => \A wk \in PutWorkers :
             /\ puts[wk].status \in {201, 204}
             /\ PutContentOf(wk) = Some(PutBody(wk))

(***************************************************************************)
(* SpecSpell: the worker of Spec on a server with a policy on the prefix   *)
(* d, asked for locations under d and beside it under several spellings    *)
(* of their URLs.                                                          *)
(***************************************************************************)

\* The policy on d alone, and with a policy on the whole server beside it.
SpellOptions ==
    {[SandboxOptions EXCEPT !.path_auth_data = [k \in {<<"d">>} |-> UserCreds]],
     [SandboxOptions EXCEPT !.path_auth_data = [k \in {<<"d">>} |-> UserCreds],
                            !.global_auth_data = Some(<<"g", None>>)]}

\* The URLs: d and what is below it as they are written, with a slash
\* repeated, and with the d percent-encoded; and the file f beside d.
SpellUrls ==
    {<<"/", "f">>, <<"/", "/", "f">>,
     <<"/", "d", "/">>, <<"/", "d", "/", "n">>,
     <<"/", "/", "d", "/">>, <<"/", "/", "d", "/", "n">>,
     <<"/", "d", "/", "/", "n">>,
     <<"/", "%64", "/">>, <<"/", "%64", "/", "n">>}

SpellRequests ==
    {NewRequest(m, u) : m \in {"GET", "DELETE"}, u \in SpellUrls}
    \cup {[NewRequest("PUT", u) EXCEPT !.body = <<"p", "p">>] : u \in SpellUrls}

InitSpell ==
    /\ AuthIdle
    /\ \E opts \in SpellOptions : ServerIdle(NewHandler(opts), InitialTree)
    /\ WorkerIdle
    /\ PutIdle
    /\ CacheIdle
    /\ BootIdle
    /\ H1Idle

\* HttpHandler::handle for one of the requests, with one of the
\* Authorization headers; prune() is the second half.
ServeSpelled ==
    /\ stage = "handle"
    /\ nreq < MaxRequests
    /\ \E base \in SpellRequests, a \in GateAuthorizations :
          Respond([base EXCEPT !.authorization = a],
                  handle(handler, World, [base EXCEPT !.authorization = a], NoFault), NoFault)
    /\ stage' = "prune"
    /\ nreq' = nreq + 1
    /\ UNCHANGED <<authVars, handler, last_prune, now, putVars, cacheVars, bootVars, h1Vars>>

NextSpell == ServeSpelled \/ Prune

SpecSpell == InitSpell /\ [][NextSpell]_vars

\* TRUE when the Path Resolver maps the URL to a location under the prefix
\* key of the hosted directory: the path it builds from the segments, the
\* empty ones dropped and each of the others percent-decoded, before any
\* link is followed.
ResolvesUnder(h, fs, url, key) ==
    LET parsed == parse_requested_path_custom_symlink(fs, h.hosted_directory, url, FALSE)
        prefix == h.hosted_directory \o Components(key)
    IN  /\ ~parsed.url_err
        /\ Len(parsed.req_p) >= Len(prefix)
        /\ SubSeq(parsed.req_p, 1, Len(prefix)) = prefix

\* C40 (Auth cannot be bypassed by URL spelling): every request whose URL
\* the Path Resolver maps to a location under a prefix with a per-path
\* policy is checked by the Auth Gate against the policy of that prefix,
\* and is answered 401 exactly when its credentials are not those of the
\* prefix, however the URL is spelled.
C40_NoBypassBySpelling ==
    \A key \in {<<"d">>} :
       (/\ resp # << >>
        /\ handler # << >>
        /\ key \in DOMAIN handler.path_auth_data
        /\ ResolvesUnder(handler, disk, resp.req.path, key))
          => /\ EffectiveAuth(handler.global_auth_data, handler.path_auth_data, resp.req.path)
                   = handler.path_auth_data[key]
             /\ resp.r.status = 401 <=> ~CredentialsAccepted(handler.path_auth_data[key], resp.req.authorization)

====
